---------------------------- MODULE Spec2Model ----------------------------
(***************************************************************************)
(* Model of the SUKL ingestion-and-enrichment pipeline:                    *)
(*   step2_sukl_api.py      catalog client, document fetcher, catalog      *)
(*                          store, ingestion driver                        *)
(*   step3_pdf_extraction.py / step3b_openai_api.py                        *)
(*                          fact extractor, enrichment store, extraction   *)
(*                          driver (Ollama and OpenAI variants)            *)
(*   step4b_vector_search.py  embedding indexer and semantic search        *)
(*                                                                         *)
(* Durations are in milliseconds.  Byte strings and texts are sequences.   *)
(* A Python dict is a function whose DOMAIN is the set of keys present.    *)
(***************************************************************************)
EXTENDS Integers, Sequences, FiniteSets, TLC

(***************************************************************************)
(* Bounds of the model                                                     *)
(***************************************************************************)
\* largest max_retries argument of download_document that is explored
MaxRetriesBound == 3

\* longest code list get_medicines_list returns in the model
MaxCatalogLen == 2

(***************************************************************************)
(* Generic helpers                                                         *)
(***************************************************************************)
RECURSIVE Pow2(_)
\* 2 ** n
Pow2(n) == IF n = 0 THEN 1 ELSE 2 * Pow2(n - 1)

\* dict.get(k, default)
Get(d, k, default) == IF k \in DOMAIN d THEN d[k] ELSE default

\* the empty dict {}
EmptyDict == [k \in {} |-> 0]

\* Python truthiness of a dict, a list, a str or a bytes value
Truthy(x) == DOMAIN x # {}

\* a byte string of n bytes
BytesOfLen(n) == [i \in 1..n |-> 37]

\* str.startswith
StartsWith(s, prefix) ==
    /\ Len(s) >= Len(prefix)
    /\ SubSeq(s, 1, Len(prefix)) = prefix

\* all sequences over S of length lo..hi
SeqsOfLen(S, lo, hi) == UNION {[1..n -> S] : n \in lo..hi}

(***************************************************************************)
(* State                                                                   *)
(***************************************************************************)
VARIABLES
    \* ---- SUKLAPIClient.download_document (one call in progress) ----
    dl_pc,               \* "idle" | "pre" | "loop" | "returned" | "raised"
    is_eu_registration,  \* argument
    max_retries,         \* argument
    attempt,             \* loop variable of `for attempt in range(max_retries)`
    responses,           \* the HTTP answers received by this call, in order
    sleeps,              \* time.sleep calls of this call: [after, ms]
    pdf_content,         \* returned bytes
    \* ---- the PostgreSQL database ----
    leciva,              \* rows of table leciva
    dokumenty,           \* rows of table dokumenty
    dokumenty_id_seq,    \* next value of the SERIAL column dokumenty.id
    now,                 \* CURRENT_TIMESTAMP, a logical clock
    \* ---- main() of step2_sukl_api.py ----
    pc,                  \* position of the driver
    SKIP_EU_REGISTRATIONS, TARGET_MEDICINES, MAX_ATTEMPTS,  \* configuration
    medicine_codes,      \* the list get_medicines_list returned
    idx,                 \* number of list elements the for loop has taken
    kod_sukl,            \* loop variable
    medicine_detail,     \* the detail dict of the current code
    success_count, document_count, skipped_eu_count, processed_count,
    log,                 \* history of this run: calls made, terminal states
    \* ---- the enrichment table of the database ----
    extracted_info,      \* rows of table extracted_info
    extracted_info_id_seq,  \* next value of the SERIAL column
    ei_schema,           \* script whose CREATE TABLE made the table, or "none"
    ei_fk,               \* the table's REFERENCES leciva constraint exists
    \* ---- main() of step3_pdf_extraction.py / step3b_openai_api.py ----
    ex_pc,               \* position of the extraction driver
    variant,             \* the script that runs: "step3" | "step3b"
    medicines,           \* cursor.fetchall() of the backlog query
    ex_i,                \* number of rows of medicines the loop has taken
    last_extract,        \* the latest extract_medicine_info call
    last_save,           \* the latest save_extracted_info call of the loop
    \* ---- direct calls of the store interface ----
    api_prev, api_last,  \* the two latest calls, each with the tables after it
    \* ---- VectorSearchManager of step4b_vector_search.py ----
    medicine_vectors,    \* rows of table medicine_vectors
    mv_fk,               \* the table's REFERENCES leciva constraint exists
    search,              \* the latest search_similar_medicines call
    \* ---- VectorSearchManager.batch_update_vectors (one call) ----
    bu_pc,               \* "idle" | "start" | "loop" | "returned"
    bu_medicines,        \* cursor.fetchall() of the query of lines 220-225
    bu_i,                \* number of rows of bu_medicines the loop has taken
    updated_count,       \* local counter
    bu_calls,            \* the update_vectors_for_medicine calls made
    bu_ret,              \* the returned count
    \* ---- MedicineSearcher.search_medicines of step4a_search.py ----
    lexical              \* the latest search_medicines call

fetchVars == <<dl_pc, is_eu_registration, max_retries, attempt, responses,
               sleeps, pdf_content>>

storeVars == <<leciva, dokumenty, dokumenty_id_seq, now>>

configVars == <<SKIP_EU_REGISTRATIONS, TARGET_MEDICINES, MAX_ATTEMPTS>>

counterVars == <<success_count, document_count, skipped_eu_count,
                 processed_count>>

driverVars == <<pc, configVars, medicine_codes, idx, kod_sukl,
                medicine_detail, counterVars, log>>

enrichVars == <<extracted_info, extracted_info_id_seq, ei_schema, ei_fk>>

extractVars == <<ex_pc, variant, medicines, ex_i, last_extract, last_save>>

apiVars == <<api_prev, api_last>>

batchVars == <<bu_pc, bu_medicines, bu_i, updated_count, bu_calls, bu_ret>>

indexVars == <<medicine_vectors, mv_fk, search, batchVars, lexical>>

\* what the fetcher and the ingestion driver never touch
laterStageVars == <<extracted_info, extracted_info_id_seq, ei_schema,
                    extractVars, apiVars, medicine_vectors, search, batchVars,
                    lexical>>

vars == <<fetchVars, storeVars, driverVars, enrichVars, extractVars, apiVars,
          indexVars>>

(***************************************************************************)
(* Document Fetcher: SUKLAPIClient.download_document                       *)
(***************************************************************************)
\* document bodies the upstream may serve: an empty body or a 50-byte PDF
Payloads == {<<>>, BytesOfLen(50)}

\* status 0 stands for a failure without an HTTP response (timeout,
\* connection error): requests raises an exception that is not an HTTPError
Responses ==
    {[status |-> 200, body |-> p] : p \in Payloads}
    \cup {[status |-> s, body |-> <<>>] : s \in {429, 404, 500, 0}}

RaisesHTTPErrorOnly5xx(r) == r.status >= 500 /\ r.status < 600

\* response.raise_for_status(): HTTPError for 4xx and 5xx
RaisesHTTPError(r) == r.status >= 400 /\ r.status < 600

\* session.get raised something that is not an HTTPError
RaisesOther(r) == r.status = 0

WaitTimeFixed(k) == 5000

\* wait_time = (2 ** attempt) * 5, in ms
WaitTime(k) == Pow2(k) * 5000

Sleep(ms) == Append(sleeps, [after |-> Len(responses) + 1, ms |-> ms])

DlPreDelayAlways ==
    /\ dl_pc = "pre"
    /\ sleeps' = Append(sleeps, [after |-> 0, ms |-> 3000])
    /\ dl_pc' = "loop"
    /\ UNCHANGED <<is_eu_registration, max_retries, attempt, responses,
                   pdf_content>>
    /\ UNCHANGED <<storeVars, driverVars, enrichVars, extractVars, apiVars,
                   indexVars>>

\* lines 89-91: the extra pause for EU registrations, before the loop
DlPreDelay ==
    /\ dl_pc = "pre"
    /\ sleeps' = IF is_eu_registration
                 THEN Append(sleeps, [after |-> 0, ms |-> 3000])
                 ELSE sleeps
    /\ dl_pc' = "loop"
    /\ UNCHANGED <<is_eu_registration, max_retries, attempt, responses,
                   pdf_content>>
    /\ UNCHANGED <<storeVars, driverVars, enrichVars, extractVars, apiVars,
                   indexVars>>

DlAttemptWithUncounted(r) ==
    /\ dl_pc = "loop"
    /\ attempt < max_retries
    /\ responses' = Append(responses, r)
    /\ IF ~RaisesHTTPError(r) /\ ~RaisesOther(r)
       THEN /\ dl_pc' = "returned"
            /\ pdf_content' = r.body
            /\ UNCHANGED <<attempt, sleeps>>
       ELSE IF RaisesHTTPError(r) /\ r.status # 429
       THEN /\ dl_pc' = "raised"
            /\ UNCHANGED <<attempt, sleeps, pdf_content>>
       ELSE /\ sleeps' = Sleep(IF r.status = 429 THEN WaitTime(attempt)
                                                 ELSE 2000)
            /\ UNCHANGED <<attempt, dl_pc, pdf_content>>
    /\ UNCHANGED <<is_eu_registration, max_retries>>
    /\ UNCHANGED <<storeVars, driverVars, enrichVars, extractVars, apiVars,
                   indexVars>>

\* lines 93-119: one iteration of the retry loop, answered by r
DlAttemptWith(r) ==
    /\ dl_pc = "loop"
    /\ attempt < max_retries
    /\ responses' = Append(responses, r)
    /\ IF ~RaisesHTTPError(r) /\ ~RaisesOther(r)
       THEN \* line 98: return response.content
            /\ dl_pc' = "returned"
            /\ pdf_content' = r.body
            /\ UNCHANGED <<attempt, sleeps>>
       ELSE IF RaisesHTTPError(r) /\ r.status # 429
       THEN \* line 111: raise
            /\ dl_pc' = "raised"
            /\ UNCHANGED <<attempt, sleeps, pdf_content>>
       ELSE IF attempt < max_retries - 1
       THEN \* lines 105-106 and 117-118: sleep, continue
            /\ sleeps' = Sleep(IF r.status = 429 THEN WaitTime(attempt)
                                                 ELSE 2000)
            /\ attempt' = attempt + 1
            /\ UNCHANGED <<dl_pc, pdf_content>>
       ELSE \* lines 109 and 119: return b""
            /\ dl_pc' = "returned"
            /\ pdf_content' = <<>>
            /\ UNCHANGED <<attempt, sleeps>>
    /\ UNCHANGED <<is_eu_registration, max_retries>>
    /\ UNCHANGED <<storeVars, driverVars, enrichVars, extractVars, apiVars,
                   indexVars>>

DlAttempt == \E r \in Responses : DlAttemptWith(r)

\* line 121: the loop ran out (only when max_retries = 0)
DlLoopExit ==
    /\ dl_pc = "loop"
    /\ attempt >= max_retries
    /\ dl_pc' = "returned"
    /\ pdf_content' = <<>>
    /\ UNCHANGED <<is_eu_registration, max_retries, attempt, responses,
                   sleeps>>
    /\ UNCHANGED <<storeVars, driverVars, enrichVars, extractVars, apiVars,
                   indexVars>>

(***************************************************************************)
(* Catalog Store: DatabaseManager of step2_sukl_api.py                     *)
(*                                                                         *)
(* A table is the set of its rows.  Of the 22 attribute columns of leciva  *)
(* the model keeps nazev and registracni_cislo; all of them are written    *)
(* the same way.                                                           *)
(***************************************************************************)
\* the primary-key values present in a table
Keys(rows) == {r.kod_sukl : r \in rows}

\* lines 241-263: the VALUES tuple of save_medicine
MedicineParams(medicine_data) ==
    [kod_sukl          |-> Get(medicine_data, "kodSUKL", ""),
     nazev             |-> Get(medicine_data, "nazev", <<>>),
     registracni_cislo |-> Get(medicine_data, "registracniCislo", <<>>)]

UpsertLecivaMerge(rows, p, t) ==
    IF p.kod_sukl \in Keys(rows)
    THEN {IF r.kod_sukl = p.kod_sukl
          THEN [r EXCEPT !.nazev = IF p.nazev = <<>> THEN @ ELSE p.nazev,
                         !.registracni_cislo =
                             IF p.registracni_cislo = <<>> THEN @
                             ELSE p.registracni_cislo]
          ELSE r : r \in rows}
    ELSE rows \cup {[kod_sukl          |-> p.kod_sukl,
                     nazev             |-> p.nazev,
                     registracni_cislo |-> p.registracni_cislo,
                     created_at        |-> t]}

\* lines 207-239: INSERT INTO leciva ... ON CONFLICT (kod_sukl) DO UPDATE SET
\* every attribute column; created_at keeps its DEFAULT of the first insert
UpsertLeciva(rows, p, t) ==
    IF p.kod_sukl \in Keys(rows)
    THEN {IF r.kod_sukl = p.kod_sukl
          THEN [r EXCEPT !.nazev = p.nazev,
                         !.registracni_cislo = p.registracni_cislo]
          ELSE r : r \in rows}
    ELSE rows \cup {[kod_sukl          |-> p.kod_sukl,
                     nazev             |-> p.nazev,
                     registracni_cislo |-> p.registracni_cislo,
                     created_at        |-> t]}

\* lines 289-294: the VALUES tuple of save_document
DocumentParams(kod, document_data, content) ==
    [kod_sukl    |-> kod,
     dokument_id |-> Get(document_data, "id", ""),
     typ         |-> Get(document_data, "typ", "spc"),
     nazev       |-> Get(document_data, "nazev", <<>>),
     pdf_data    |-> content,
     pdf_size    |-> Len(content)]

DokumentyFkIgnored(lecivaRows, p) == TRUE

\* line 183: kod_sukl REFERENCES leciva(kod_sukl)
DokumentyFkHolds(lecivaRows, p) == p.kod_sukl \in Keys(lecivaRows)

\* DELETE the conflicting row, then INSERT: a new id and created_at
UpsertDokumentyReinsert(rows, p, id, t) ==
    {r \in rows : ~(r.kod_sukl = p.kod_sukl /\ r.dokument_id = p.dokument_id)}
    \cup {[id          |-> id,
            kod_sukl    |-> p.kod_sukl,
            dokument_id |-> p.dokument_id,
            typ         |-> p.typ,
            nazev       |-> p.nazev,
            pdf_data    |-> p.pdf_data,
            pdf_size    |-> p.pdf_size,
            created_at  |-> t]}

\* lines 279-287: INSERT INTO dokumenty ... ON CONFLICT (kod_sukl,
\* dokument_id) DO UPDATE SET typ, nazev, pdf_data, pdf_size; id and
\* created_at keep the values of the first insert
UpsertDokumenty(rows, p, id, t) ==
    IF \E r \in rows : r.kod_sukl = p.kod_sukl /\ r.dokument_id = p.dokument_id
    THEN {IF r.kod_sukl = p.kod_sukl /\ r.dokument_id = p.dokument_id
          THEN [r EXCEPT !.typ = p.typ, !.nazev = p.nazev,
                         !.pdf_data = p.pdf_data, !.pdf_size = p.pdf_size]
          ELSE r : r \in rows}
    ELSE rows \cup {[id          |-> id,
                     kod_sukl    |-> p.kod_sukl,
                     dokument_id |-> p.dokument_id,
                     typ         |-> p.typ,
                     nazev       |-> p.nazev,
                     pdf_data    |-> p.pdf_data,
                     pdf_size    |-> p.pdf_size,
                     created_at  |-> t]}

(***************************************************************************)
(* Ingestion driver: main() of step2_sukl_api.py                           *)
(***************************************************************************)
\* product codes of the upstream catalog
DriverCodes == {"A1", "A2"}

\* registration numbers, as sequences of characters
RegEU == <<"E", "U", "/", "1", "/", "2", "3">>
RegCZ == <<"1", "6", "/", "0", "7">>

\* what GET /lecive-pripravky/{code} may answer for a code: a payload with
\* an EU or a national registration number, or one without the attribute
DetailsFor(kod) ==
    {[kodSUKL |-> kod, nazev |-> <<"N", kod>>, registracniCislo |-> reg] :
        reg \in {RegEU, RegCZ}}
    \cup {[kodSUKL |-> kod, nazev |-> <<"N", kod>>]}

\* the lists the upstream may answer to get_medicines_list
CatalogLists == SeqsOfLen(DriverCodes, 0, MaxCatalogLen)

\* default of the max_retries parameter
DefaultMaxRetries == 3

Event(op, kod, arg, res) == [op |-> op, kod |-> kod, arg |-> arg, res |-> res]

Terminal(kod, state) == Event("terminal", kod, <<>>, state)

InitDatabaseKeepingRows ==
    /\ pc = "start"
    /\ pc' = "list"
    /\ UNCHANGED <<storeVars, fetchVars, configVars, medicine_codes, idx,
                   kod_sukl, medicine_detail, counterVars, log>>
    /\ UNCHANGED <<laterStageVars, ei_fk, mv_fk>>

\* lines 137-199: DROP both tables, CREATE them again
InitDatabase ==
    /\ pc = "start"
    /\ \E ok \in BOOLEAN :
         IF ok
         THEN \* DROP ... CASCADE removes the foreign keys that reference
              \* leciva from the other tables, and leaves their rows
              /\ leciva' = {}
              /\ dokumenty' = {}
              /\ dokumenty_id_seq' = 1
              /\ ei_fk' = FALSE
              /\ mv_fk' = FALSE
              /\ pc' = "list"
         ELSE \* line 199: raise, out of main
              /\ pc' = "crashed"
              /\ UNCHANGED <<leciva, dokumenty, dokumenty_id_seq, ei_fk,
                             mv_fk>>
    /\ UNCHANGED <<now, fetchVars, configVars, medicine_codes, idx, kod_sukl,
                   medicine_detail, counterVars, log>>
    /\ UNCHANGED laterStageVars

\* What the upstream answers to the list request: the request fails
\* (network error, timeout, error status, body that is not JSON), or it
\* succeeds with a list of codes.
ListAnswers ==
    {[kind |-> "failure", codes |-> <<>>]}
    \cup {[kind |-> "list", codes |-> c] : c \in CatalogLists}

\* get_medicines_list, lines 24-46: the list, or [] on any exception
GetMedicinesListResult(answer) ==
    IF answer.kind = "failure" THEN <<>> ELSE answer.codes

\* lines 316-320: fetch the list; `return` when it is empty
GetMedicinesList ==
    /\ pc = "list"
    /\ \E answer \in ListAnswers :
         LET codes == GetMedicinesListResult(answer) IN
         /\ medicine_codes' = codes
         /\ log' = Append(log, Event("upstream_list", "", <<>>, answer.kind))
         /\ pc' = IF codes = <<>> THEN "no_codes" ELSE "loop"
    /\ UNCHANGED <<fetchVars, storeVars, configVars, idx, kod_sukl,
                   medicine_detail, counterVars>>
    /\ UNCHANGED <<laterStageVars, ei_fk, mv_fk>>

\* The exit status of `python step2_sukl_api.py` once main is over
\* (lines 412-413 call main() and nothing else): 1 when an exception left
\* main, 0 when main returned, at line 320 or at its end.
ExitStatus == IF pc = "crashed" THEN 1 ELSE 0

StopConditionLate(success, processed) ==
    success > TARGET_MEDICINES \/ processed > MAX_ATTEMPTS

\* lines 340 and 344: the two `break` conditions
StopCondition(success, processed) ==
    success >= TARGET_MEDICINES \/ processed > MAX_ATTEMPTS

\* lines 335-346: take the next code, count it, test the stop conditions
LoopHead ==
    /\ pc = "loop"
    /\ IF idx >= Len(medicine_codes)
       THEN /\ pc' = "done"
            /\ UNCHANGED <<idx, kod_sukl, processed_count>>
       ELSE /\ idx' = idx + 1
            /\ kod_sukl' = medicine_codes[idx + 1]
            /\ processed_count' = processed_count + 1
            /\ pc' = IF StopCondition(success_count, processed_count')
                     THEN "done"
                     ELSE "detail"
    /\ UNCHANGED <<fetchVars, storeVars, configVars, medicine_codes,
                   medicine_detail, success_count, document_count,
                   skipped_eu_count, log>>
    /\ UNCHANGED <<laterStageVars, ei_fk, mv_fk>>

IsEuRegistrationExact(detail) ==
    Get(detail, "registracniCislo", <<>>) = <<"E", "U">>

\* line 358
IsEuRegistration(detail) ==
    StartsWith(Get(detail, "registracniCislo", <<>>), <<"E", "U">>)

\* What the upstream answers to the detail request: the request fails
\* (network error, timeout, error status, body that is not JSON), or it
\* succeeds with a JSON payload, which may be the empty object.
DetailAnswers(kod) ==
    {[kind |-> "failure", payload |-> EmptyDict]}
    \cup {[kind |-> "payload", payload |-> d] :
             d \in DetailsFor(kod) \cup {EmptyDict}}

\* get_medicine_detail, lines 48-60: response.json(), or {} on any
\* exception
GetMedicineDetailResult(answer) ==
    IF answer.kind = "failure" THEN EmptyDict ELSE answer.payload

\* lines 350-372: fetch the detail, classify, start the download.
GetMedicineDetail ==
    /\ pc = "detail"
    /\ \E answer \in DetailAnswers(kod_sukl) :
         LET d      == GetMedicineDetailResult(answer)
             asked  == Event("upstream_detail", kod_sukl, <<>>, answer.kind)
             got    == Event("get_medicine_detail", kod_sukl,
                             Get(d, "registracniCislo", <<>>),
                             IF Truthy(d) THEN "detail" ELSE "absent")
             called == <<asked, got>>
         IN
         /\ medicine_detail' = d
         /\ IF ~Truthy(d)
            THEN \* line 354
                 /\ log' = log \o called \o <<Terminal(kod_sukl, "Failed")>>
                 /\ pc' = "loop"
                 /\ UNCHANGED <<skipped_eu_count, fetchVars>>
            ELSE IF IsEuRegistration(d) /\ SKIP_EU_REGISTRATIONS
            THEN \* lines 363-364
                 /\ skipped_eu_count' = skipped_eu_count + 1
                 /\ log' = log \o called
                                \o <<Terminal(kod_sukl, "SkippedEU")>>
                 /\ pc' = "loop"
                 /\ UNCHANGED fetchVars
            ELSE \* line 372: call download_document(kod_sukl, "spc", is_eu)
                 /\ log' = log \o called
                                \o <<Event("download_document", kod_sukl,
                                            <<>>, "called")>>
                 /\ pc' = "download"
                 /\ dl_pc' = "pre"
                 /\ is_eu_registration' = IsEuRegistration(d)
                 /\ max_retries' = DefaultMaxRetries
                 /\ attempt' = 0
                 /\ responses' = <<>>
                 /\ sleeps' = <<>>
                 /\ pdf_content' = <<>>
                 /\ UNCHANGED skipped_eu_count
    /\ UNCHANGED <<storeVars, configVars, medicine_codes, idx, kod_sukl,
                   success_count, document_count, processed_count>>
    /\ UNCHANGED <<laterStageVars, ei_fk, mv_fk>>

AfterDownloadUncaught ==
    /\ pc = "download"
    /\ dl_pc \in {"returned", "raised"}
    /\ dl_pc' = "idle"
    /\ attempt' = 0
    /\ responses' = <<>>
    /\ sleeps' = <<>>
    /\ IF dl_pc = "raised"
       THEN /\ log' = Append(log, Terminal(kod_sukl, "Failed"))
            /\ pc' = "crashed"
       ELSE IF ~Truthy(pdf_content)
       THEN /\ log' = Append(log, Terminal(kod_sukl, "SkippedEmpty"))
            /\ pc' = "loop"
       ELSE /\ pc' = "save_medicine"
            /\ UNCHANGED log
    /\ UNCHANGED <<is_eu_registration, max_retries, pdf_content, storeVars,
                   configVars, medicine_codes, idx, kod_sukl, medicine_detail,
                   counterVars>>
    /\ UNCHANGED <<laterStageVars, ei_fk, mv_fk>>

AfterDownloadEmptyFailed ==
    /\ pc = "download"
    /\ dl_pc \in {"returned", "raised"}
    /\ dl_pc' = "idle"
    /\ attempt' = 0
    /\ responses' = <<>>
    /\ sleeps' = <<>>
    /\ IF dl_pc = "raised" \/ ~Truthy(pdf_content)
       THEN /\ log' = Append(log, Terminal(kod_sukl, "Failed"))
            /\ pc' = "loop"
       ELSE /\ pc' = "save_medicine"
            /\ UNCHANGED log
    /\ UNCHANGED <<is_eu_registration, max_retries, pdf_content, storeVars,
                   configVars, medicine_codes, idx, kod_sukl, medicine_detail,
                   counterVars>>
    /\ UNCHANGED <<laterStageVars, ei_fk, mv_fk>>

AfterDownloadKeepingEmpty ==
    /\ pc = "download"
    /\ dl_pc \in {"returned", "raised"}
    /\ dl_pc' = "idle"
    /\ attempt' = 0
    /\ responses' = <<>>
    /\ sleeps' = <<>>
    /\ IF dl_pc = "raised"
       THEN /\ log' = Append(log, Terminal(kod_sukl, "Failed"))
            /\ pc' = "loop"
       ELSE /\ pc' = "save_medicine"
            /\ UNCHANGED log
    /\ UNCHANGED <<is_eu_registration, max_retries, pdf_content, storeVars,
                   configVars, medicine_codes, idx, kod_sukl, medicine_detail,
                   counterVars>>
    /\ UNCHANGED <<laterStageVars, ei_fk, mv_fk>>

\* lines 372-375 and 398-400: download_document has returned or raised
AfterDownload ==
    /\ pc = "download"
    /\ dl_pc \in {"returned", "raised"}
    /\ dl_pc' = "idle"
    /\ attempt' = 0
    /\ responses' = <<>>
    /\ sleeps' = <<>>
    /\ IF dl_pc = "raised"
       THEN \* line 400
            /\ log' = Append(log, Terminal(kod_sukl, "Failed"))
            /\ pc' = "loop"
       ELSE IF ~Truthy(pdf_content)
       THEN \* line 375
            /\ log' = Append(log, Terminal(kod_sukl, "SkippedEmpty"))
            /\ pc' = "loop"
       ELSE /\ pc' = "save_medicine"
            /\ UNCHANGED log
    /\ UNCHANGED <<is_eu_registration, max_retries, pdf_content, storeVars,
                   configVars, medicine_codes, idx, kod_sukl, medicine_detail,
                   counterVars>>
    /\ UNCHANGED <<laterStageVars, ei_fk, mv_fk>>

SaveMedicineUnchecked ==
    /\ pc = "save_medicine"
    /\ now' = now + 1
    /\ \E ok \in BOOLEAN :
         /\ leciva' = IF ok
                      THEN UpsertLeciva(leciva, MedicineParams(medicine_detail),
                                        now)
                      ELSE leciva
         /\ log' = Append(log, Event("save_medicine", kod_sukl, <<>>,
                                     IF ok THEN "True" ELSE "False"))
         /\ pc' = "save_document"
    /\ UNCHANGED <<dokumenty, dokumenty_id_seq, fetchVars, configVars,
                   medicine_codes, idx, kod_sukl, medicine_detail,
                   counterVars>>
    /\ UNCHANGED <<laterStageVars, ei_fk, mv_fk>>

\* lines 378-380 with save_medicine (lines 201-271); any exception in it
\* (connection, value too long) makes it return False
SaveMedicine ==
    /\ pc = "save_medicine"
    /\ now' = now + 1
    /\ \E ok \in BOOLEAN :
         IF ok
         THEN /\ leciva' = UpsertLeciva(leciva,
                                        MedicineParams(medicine_detail), now)
              /\ log' = Append(log, Event("save_medicine", kod_sukl, <<>>,
                                          "True"))
              /\ pc' = "save_document"
         ELSE /\ log' = log \o <<Event("save_medicine", kod_sukl, <<>>,
                                       "False"),
                                 Terminal(kod_sukl, "Failed")>>
              /\ pc' = "loop"
              /\ UNCHANGED leciva
    /\ UNCHANGED <<dokumenty, dokumenty_id_seq, fetchVars, configVars,
                   medicine_codes, idx, kod_sukl, medicine_detail,
                   counterVars>>
    /\ UNCHANGED <<laterStageVars, ei_fk, mv_fk>>

\* lines 383-387
DocData(kod) == [id |-> kod, nazev |-> <<"SPC_", kod, ".pdf">>, typ |-> "spc"]

\* the pause of line 396, in ms
PacingSleep(is_eu) == IF ~is_eu THEN 500 ELSE 1000

\* lines 382-396 with save_document (lines 273-302): the insert fails on a
\* foreign-key violation or on any other exception
SaveDocument ==
    /\ pc = "save_document"
    /\ now' = now + 1
    /\ \E connected \in BOOLEAN :
         LET p  == DocumentParams(kod_sukl, DocData(kod_sukl), pdf_content)
             ok == connected /\ DokumentyFkHolds(leciva, p)
             paused == Event("sleep", kod_sukl,
                             <<PacingSleep(is_eu_registration)>>, "")
         IN
         /\ dokumenty_id_seq' = IF connected THEN dokumenty_id_seq + 1
                                             ELSE dokumenty_id_seq
         /\ IF ok
            THEN /\ dokumenty' = UpsertDokumenty(dokumenty, p,
                                                 dokumenty_id_seq, now)
                 /\ success_count' = success_count + 1
                 /\ document_count' = document_count + 1
                 /\ log' = log \o <<Event("save_document", kod_sukl, <<>>,
                                          "True"),
                                    Terminal(kod_sukl, "Stored"), paused>>
            ELSE /\ log' = log \o <<Event("save_document", kod_sukl, <<>>,
                                          "False"),
                                    Terminal(kod_sukl, "Failed"), paused>>
                 /\ UNCHANGED <<dokumenty, success_count, document_count>>
    /\ pc' = "loop"
    /\ UNCHANGED <<leciva, fetchVars, configVars, medicine_codes, idx,
                   kod_sukl, medicine_detail, skipped_eu_count,
                   processed_count>>
    /\ UNCHANGED <<laterStageVars, ei_fk, mv_fk>>

\* configurations explored: the policy flag of line 309, the target of
\* line 325 and the ceiling of line 326
TargetChoices == {1, 5}
MaxAttemptsChoices == {1, 5000}

\* the database main() finds: empty, or left by an earlier run
PriorRow == [kod_sukl |-> "A1", nazev |-> <<"N", "A1">>,
             registracni_cislo |-> RegCZ, created_at |-> 0]

InitStore ==
    /\ leciva \in {{}, {PriorRow}}
    /\ dokumenty = IF leciva = {} THEN {}
                   ELSE UpsertDokumenty({}, DocumentParams("A1", DocData("A1"),
                                                           BytesOfLen(50)), 1, 0)
    /\ dokumenty_id_seq = Cardinality(dokumenty) + 1
    /\ now = 1

IdleFetch ==
    /\ dl_pc = "idle"
    /\ is_eu_registration = FALSE
    /\ max_retries = DefaultMaxRetries
    /\ attempt = 0
    /\ responses = <<>>
    /\ sleeps = <<>>
    /\ pdf_content = <<>>

\* no enrichment table yet
NoEnrichment ==
    /\ extracted_info = {}
    /\ extracted_info_id_seq = 1
    /\ ei_schema = "none"
    /\ ei_fk = FALSE

NoCall == [op |-> "none", args |-> <<>>, ok |-> FALSE, tables |-> <<>>]

\* a Python value decoded from JSON: an object (dict) or an array (list)
JsonObject(d) == [kind |-> "object", fields |-> d, items |-> 0]
JsonArray(n) == [kind |-> "array", fields |-> EmptyDict, items |-> n]

\* an answer of the completion service: the call raises ("error"), the
\* message has no content ("none"), or it has a text that is well-formed
\* JSON for the value `json`, or is not
ServiceAnswer(result, wellformed, json) ==
    [result |-> result, wellformed |-> wellformed, json |-> json]

NoExtract ==
    [kod |-> "", svc |-> ServiceAnswer("error", FALSE, JsonObject(EmptyDict)),
     raised |-> FALSE, value |-> JsonObject(EmptyDict)]

NoSave == [kod |-> "", info |-> EmptyDict, text |-> <<>>, ok |-> FALSE]

IdleExtract ==
    /\ ex_pc = "idle"
    /\ variant = "step3b"
    /\ medicines = <<>>
    /\ ex_i = 0
    /\ last_extract = NoExtract
    /\ last_save = NoSave

IdleApi ==
    /\ api_prev = NoCall
    /\ api_last = NoCall

NoSearch ==
    [called |-> FALSE, query_vector |-> [zero |-> TRUE, angle |-> 0],
     limit |-> 0, raised |-> FALSE, rows |-> <<>>, results |-> <<>>]

\* batch_update_vectors is not running
IdleBatch ==
    /\ bu_pc = "idle"
    /\ bu_medicines = <<>>
    /\ bu_i = 0
    /\ updated_count = 0
    /\ bu_calls = <<>>
    /\ bu_ret = 0

NoLexical ==
    [called |-> FALSE, script |-> "", query |-> <<>>, raised |-> FALSE,
     results |-> <<>>]

\* no search is made and no batch runs
IdleQueries ==
    /\ search = NoSearch
    /\ IdleBatch
    /\ lexical = NoLexical

\* no medicine_vectors table yet
IdleIndex ==
    /\ medicine_vectors = {}
    /\ mv_fk = FALSE
    /\ IdleQueries

Init ==
    /\ IdleFetch
    /\ InitStore
    /\ NoEnrichment
    /\ IdleExtract
    /\ IdleApi
    /\ IdleIndex
    /\ pc = "start"
    /\ SKIP_EU_REGISTRATIONS \in BOOLEAN
    /\ TARGET_MEDICINES \in TargetChoices
    /\ MAX_ATTEMPTS \in MaxAttemptsChoices
    /\ medicine_codes = <<>>
    /\ idx = 0
    /\ kod_sukl = ""
    /\ medicine_detail = EmptyDict
    /\ success_count = 0
    /\ document_count = 0
    /\ skipped_eu_count = 0
    /\ processed_count = 0
    /\ log = <<>>

Next ==
    \/ InitDatabase
    \/ GetMedicinesList
    \/ LoopHead
    \/ GetMedicineDetail
    \/ DlPreDelay
    \/ DlAttempt
    \/ AfterDownload
    \/ SaveMedicine
    \/ SaveDocument

Spec == Init /\ [][Next]_vars

(***************************************************************************)
(* Enrichment Store: DatabaseManager.save_extracted_info                   *)
(*                                                                         *)
(* step3 creates extracted_info with nine TEXT[] columns and no UNIQUE on  *)
(* kod_sukl; step3b creates it with indikace, davkovani and UNIQUE         *)
(* (kod_sukl).  Both use CREATE TABLE IF NOT EXISTS: the first script to   *)
(* run decides the schema (ei_schema).                                     *)
(***************************************************************************)
\* characters of the source text that are stored
ExtractedTextLimit == 1000

PrefixWhole(text, n) == text

\* text[:n]
Prefix(text, n) == SubSeq(text, 1, IF Len(text) < n THEN Len(text) ELSE n)

ExtractedInfoParamsSwapped(kod, info, text) ==
    [kod_sukl       |-> kod,
     indikace       |-> Get(info, "indikace", <<>>),
     davkovani      |-> Get(info, "indikace", <<>>),
     extracted_text |-> Prefix(text, ExtractedTextLimit)]

\* step3b lines 167-170: the VALUES tuple
ExtractedInfoParams(kod, info, text) ==
    [kod_sukl       |-> kod,
     indikace       |-> Get(info, "indikace", <<>>),
     davkovani      |-> Get(info, "davkovani", <<>>),
     extracted_text |-> Prefix(text, ExtractedTextLimit)]

\* Whether the INSERT of script v can run on the table that script `schema`
\* created.  ON CONFLICT (kod_sukl) needs a unique constraint on kod_sukl,
\* which only step3b's table has (line 121); step3's INSERT names columns
\* (kontraindikace, ...) that step3b's table does not have.
StatementFits(v, schema) == v = "step3b" /\ schema = "step3b"

UpsertExtractedInfoTruncating(rows, p, id, t) ==
    {[id             |-> id,
      kod_sukl       |-> p.kod_sukl,
      indikace       |-> p.indikace,
      davkovani      |-> p.davkovani,
      extracted_text |-> p.extracted_text,
      created_at     |-> t]}

\* step3b lines 158-165: INSERT ... ON CONFLICT (kod_sukl) DO UPDATE SET
\* indikace, davkovani, extracted_text
UpsertExtractedInfo(rows, p, id, t) ==
    IF p.kod_sukl \in Keys(rows)
    THEN {IF r.kod_sukl = p.kod_sukl
          THEN [r EXCEPT !.indikace = p.indikace, !.davkovani = p.davkovani,
                         !.extracted_text = p.extracted_text]
          ELSE r : r \in rows}
    ELSE rows \cup {[id             |-> id,
                     kod_sukl       |-> p.kod_sukl,
                     indikace       |-> p.indikace,
                     davkovani      |-> p.davkovani,
                     extracted_text |-> p.extracted_text,
                     created_at     |-> t]}

\* save_extracted_info (step3 lines 169-212, step3b lines 151-178) called
\* by script v: its return value and the table and sequence after it.
\* `connected` is false when the connection or the statement fails for a
\* reason outside the model.
SaveExtractedInfo(v, kod, info, text, connected) ==
    LET executed == connected /\ StatementFits(v, ei_schema)
        ok       == executed /\ (ei_fk => kod \in Keys(leciva))
    IN  [ok   |-> ok,
         rows |-> IF ok
                  THEN UpsertExtractedInfo(extracted_info,
                                           ExtractedInfoParams(kod, info, text),
                                           extracted_info_id_seq, now)
                  ELSE extracted_info,
         seq  |-> IF executed THEN extracted_info_id_seq + 1
                              ELSE extracted_info_id_seq]

(***************************************************************************)
(* SpecStore: the store interface called directly, any calls in any order  *)
(***************************************************************************)
\* calls explored after the initial store
MaxApiCalls == 2

ApiCodes == {"A1", "A2"}

\* medicine_data dicts: with and without the optional attribute
ApiMedicines ==
    {[kodSUKL |-> c, nazev |-> <<"N", c>>, registracniCislo |-> RegCZ] :
        c \in ApiCodes}
    \cup {[kodSUKL |-> c, nazev |-> <<"M", c>>] : c \in ApiCodes}

\* document_data dicts: the driver's, and one with only an id
ApiDocDatas(kod) == {DocData(kod), [id |-> kod]}

ApiContents == {BytesOfLen(50), BytesOfLen(1)}

\* extracted_info dicts of the step3b schema
ApiInfos ==
    {[indikace |-> <<"bolest">>, davkovani |-> <<>>],
     [indikace |-> <<"bolest">>],
     [davkovani |-> <<"1x">>]}

ApiTexts == {<<"S", "P", "C">>}

\* a text of n characters whose last character differs from the others
LongText(n) == [i \in 1..n |-> IF i = n THEN "z" ELSE "a"]

\* source texts around the limit of line 170: empty, short, one character
\* less than the limit, of its length, one character more
SourceTexts ==
    {<<>>, <<"S", "P", "C">>, LongText(ExtractedTextLimit - 1),
     LongText(ExtractedTextLimit), LongText(ExtractedTextLimit + 1)}

Tables == <<leciva, dokumenty, extracted_info, medicine_vectors>>

Called(op, args, ok) ==
    /\ api_prev' = api_last
    /\ api_last' = [op |-> op, args |-> args, ok |-> ok, tables |-> Tables']

ApiSaveMedicine ==
    /\ pc = "api"
    /\ now <= MaxApiCalls
    /\ now' = now + 1
    /\ UNCHANGED indexVars
    /\ \E m \in ApiMedicines, connected \in BOOLEAN :
         /\ leciva' = IF connected
                      THEN UpsertLeciva(leciva, MedicineParams(m), now)
                      ELSE leciva
         /\ UNCHANGED <<dokumenty, dokumenty_id_seq, enrichVars>>
         /\ Called("save_medicine", <<m>>, connected)
    /\ UNCHANGED <<fetchVars, driverVars, extractVars>>

ApiSaveDocument ==
    /\ pc = "api"
    /\ now <= MaxApiCalls
    /\ now' = now + 1
    /\ UNCHANGED indexVars
    /\ \E kod \in ApiCodes, content \in ApiContents, connected \in BOOLEAN :
         \E dd \in ApiDocDatas(kod) :
             LET p  == DocumentParams(kod, dd, content)
                 ok == connected /\ DokumentyFkHolds(leciva, p)
             IN
             /\ dokumenty' = IF ok
                             THEN UpsertDokumenty(dokumenty, p,
                                                  dokumenty_id_seq, now)
                             ELSE dokumenty
             /\ dokumenty_id_seq' = IF connected THEN dokumenty_id_seq + 1
                                                 ELSE dokumenty_id_seq
             /\ UNCHANGED <<leciva, enrichVars>>
             /\ Called("save_document", <<kod, dd, content>>, ok)
    /\ UNCHANGED <<fetchVars, driverVars, extractVars>>

\* one call of save_extracted_info with a source text drawn from texts
ApiSaveExtractedInfoOf(texts) ==
    /\ pc = "api"
    /\ now <= MaxApiCalls
    /\ now' = now + 1
    /\ UNCHANGED indexVars
    /\ \E v \in {"step3", "step3b"}, kod \in ApiCodes, info \in ApiInfos,
          text \in texts, connected \in BOOLEAN :
         LET res == SaveExtractedInfo(v, kod, info, text, connected)
         IN
         /\ extracted_info' = res.rows
         /\ extracted_info_id_seq' = res.seq
         /\ UNCHANGED <<leciva, dokumenty, dokumenty_id_seq, ei_schema, ei_fk>>
         /\ Called("save_extracted_info", <<v, kod, info, text>>, res.ok)
    /\ UNCHANGED <<fetchVars, driverVars, extractVars>>

ApiSaveExtractedInfo == ApiSaveExtractedInfoOf(ApiTexts)

\* an extracted_info row of an earlier run
PriorInfoRow ==
    [id |-> 1, kod_sukl |-> "A1", indikace |-> <<"kasel">>,
     davkovani |-> <<>>, extracted_text |-> <<"S", "P", "C">>,
     created_at |-> 0]

InitStoreApi ==
    /\ IdleFetch
    /\ InitStore
    /\ ei_schema \in {"step3", "step3b"}
    /\ ei_fk \in BOOLEAN
    /\ extracted_info \in
           IF ei_schema = "step3b" /\ (ei_fk => "A1" \in Keys(leciva))
           THEN {{}, {PriorInfoRow}}
           ELSE {{}}
    /\ extracted_info_id_seq = Cardinality(extracted_info) + 1
    /\ IdleExtract
    /\ IdleApi
    /\ IdleIndex
    /\ pc = "api"
    /\ SKIP_EU_REGISTRATIONS = TRUE
    /\ TARGET_MEDICINES = 10
    /\ MAX_ATTEMPTS = 5000
    /\ medicine_codes = <<>>
    /\ idx = 0
    /\ kod_sukl = ""
    /\ medicine_detail = EmptyDict
    /\ success_count = 0
    /\ document_count = 0
    /\ skipped_eu_count = 0
    /\ processed_count = 0
    /\ log = <<>>

NextStore == ApiSaveMedicine \/ ApiSaveDocument \/ ApiSaveExtractedInfo

SpecStore == InitStoreApi /\ [][NextStore]_vars

(***************************************************************************)
(* SpecFacts: one call of save_extracted_info with source texts of any     *)
(* length around the limit                                                 *)
(***************************************************************************)
SaveSourceText ==
    /\ api_last = NoCall
    /\ ApiSaveExtractedInfoOf(SourceTexts)

NextFacts == SaveSourceText

SpecFacts == InitStoreApi /\ [][NextFacts]_vars

(***************************************************************************)
(* Fact Extractor: PDFExtractor.extract_medicine_info                      *)
(***************************************************************************)
\* JSON values the service may put in its answer
JsonValues ==
    {JsonObject(EmptyDict),
     JsonObject([indikace |-> <<"bolest">>, davkovani |-> <<>>]),
     JsonObject([indikace |-> <<"bolest">>]),
     JsonArray(1)}

ServiceAnswers ==
    {ServiceAnswer("error", FALSE, JsonObject(EmptyDict)),
     ServiceAnswer("none", FALSE, JsonObject(EmptyDict)),
     ServiceAnswer("text", FALSE, JsonObject(EmptyDict))}
    \cup {ServiceAnswer("text", TRUE, j) : j \in JsonValues}

\* json.loads(content): the value, or JSONDecodeError
JsonLoads(svc) ==
    [raised |-> ~svc.wellformed, value |-> svc.json]

ExtractMedicineInfoUncaught(v, svc) ==
    IF svc.result = "text" /\ ~JsonLoads(svc).raised
    THEN [raised |-> FALSE, value |-> JsonLoads(svc).value]
    ELSE [raised |-> TRUE, value |-> JsonObject(EmptyDict)]

\* step3 lines 44-103, step3b lines 46-92: every failure returns {}
\*   the service call raises           -> outer `except Exception`
\*   no content                        -> step3b lines 78-80; in step3
\*                                        json.loads(None) is a TypeError,
\*                                        lines 96-99
\*   the content is not JSON           -> `except json.JSONDecodeError`
ExtractMedicineInfo(v, svc) ==
    IF svc.result = "error"
    THEN [raised |-> FALSE, value |-> JsonObject(EmptyDict)]
    ELSE IF svc.result = "none"
    THEN [raised |-> FALSE, value |-> JsonObject(EmptyDict)]
    ELSE IF JsonLoads(svc).raised
    THEN [raised |-> FALSE, value |-> JsonObject(EmptyDict)]
    ELSE [raised |-> FALSE, value |-> JsonLoads(svc).value]

\* truthiness of a decoded value: `if not extracted_info`
JsonTruthy(j) == IF j.kind = "object" THEN Truthy(j.fields) ELSE j.items > 0

(***************************************************************************)
(* Extraction driver: main() of step3_pdf_extraction.py (variant "step3")  *)
(* and of step3b_openai_api.py (variant "step3b")                          *)
(***************************************************************************)
ExtractCodes == {"A1", "A2", "A3"}

\* LIMIT 2 of step3's backlog query
SelectLimit == 2

Min(a, b) == IF a < b THEN a ELSE b

BacklogUnfiltered ==
    {[kod_sukl |-> l.kod_sukl, nazev |-> l.nazev, pdf_data |-> d.pdf_data] :
        <<l, d>> \in {x \in leciva \X dokumenty :
                         /\ x[1].kod_sukl = x[2].kod_sukl
                         /\ x[2].typ = "spc"}}

\* step3 lines 266-272, step3b lines 200-206: SELECT DISTINCT l.kod_sukl,
\* l.nazev, d.pdf_data FROM leciva l JOIN dokumenty d ... WHERE d.typ = 'spc'
\* AND l.kod_sukl NOT IN (SELECT kod_sukl FROM extracted_info)
Backlog ==
    {[kod_sukl |-> l.kod_sukl, nazev |-> l.nazev, pdf_data |-> d.pdf_data] :
        <<l, d>> \in {x \in leciva \X dokumenty :
                         /\ x[1].kod_sukl = x[2].kod_sukl
                         /\ x[2].typ = "spc"
                         /\ x[1].kod_sukl \notin Keys(extracted_info)}}

\* the n-row results a query without ORDER BY may give over the rows S
RowsInAnyOrder(S, n) ==
    {q \in [1..n -> S] : \A i, j \in 1..n : i # j => q[i] # q[j]}

\* what cursor.fetchall() may return for the backlog query of script v:
\* all rows for step3b, LIMIT 2 of them for step3 (line 273)
SelectUnprocessed(v) ==
    IF v = "step3b"
    THEN RowsInAnyOrder(Backlog, Cardinality(Backlog))
    ELSE RowsInAnyOrder(Backlog, Min(SelectLimit, Cardinality(Backlog)))

\* what extract_text_from_pdf may return: "" (no text, or pdfplumber
\* failed) or the text of the document
ExtractTexts == {<<>>, <<"S", "P", "C">>}

\* DatabaseManager(): init_extraction_tables, CREATE TABLE IF NOT EXISTS
ExInitTables ==
    /\ ex_pc = "start"
    /\ \E ok \in BOOLEAN :
         IF ok
         THEN /\ ei_schema' = IF ei_schema = "none" THEN variant ELSE ei_schema
              /\ ei_fk' = IF ei_schema = "none" THEN TRUE ELSE ei_fk
              /\ ex_pc' = "select"
         ELSE \* raise, out of main
              /\ ex_pc' = "crashed"
              /\ UNCHANGED <<ei_schema, ei_fk>>
    /\ UNCHANGED <<fetchVars, storeVars, driverVars, extracted_info,
                   extracted_info_id_seq, variant, medicines, ex_i,
                   last_extract, last_save, apiVars, indexVars>>

\* the backlog query and fetchall(); a failure ends main in the `except`
\* of step3 line 317 / step3b line 246
ExSelect ==
    /\ ex_pc = "select"
    /\ \E ok \in BOOLEAN :
         IF ok
         THEN /\ medicines' \in SelectUnprocessed(variant)
              /\ ex_pc' = "loop"
         ELSE /\ ex_pc' = "done"
              /\ UNCHANGED medicines
    /\ UNCHANGED <<fetchVars, storeVars, driverVars, enrichVars, variant,
                   ex_i, last_extract, last_save, apiVars, indexVars>>

\* one iteration of the loop (step3 lines 281-308, step3b lines 215-242)
ExProcess ==
    /\ ex_pc = "loop"
    /\ ex_i < Len(medicines)
    /\ ex_i' = ex_i + 1
    /\ \E text \in ExtractTexts, svc \in ServiceAnswers,
          connected \in BOOLEAN :
         LET kod  == medicines[ex_i + 1].kod_sukl
             got  == ExtractMedicineInfo(variant, svc)
             info == got.value
             \* a list has no .get: AttributeError, caught in
             \* save_extracted_info, which returns False
             res  == IF info.kind = "object"
                     THEN SaveExtractedInfo(variant, kod, info.fields, text,
                                            connected)
                     ELSE [ok |-> FALSE, rows |-> extracted_info,
                           seq |-> extracted_info_id_seq]
         IN
         IF ~Truthy(text)
         THEN \* `if not text: continue`
              UNCHANGED <<last_extract, last_save, extracted_info,
                          extracted_info_id_seq, now>>
         ELSE /\ last_extract' = [kod |-> kod, svc |-> svc,
                                  raised |-> got.raised, value |-> info]
              /\ IF got.raised \/ ~JsonTruthy(info)
                 THEN \* `except Exception: continue`, or
                      \* `if not extracted_info: continue`
                      UNCHANGED <<last_save, extracted_info,
                                  extracted_info_id_seq, now>>
                 ELSE /\ extracted_info' = res.rows
                      /\ extracted_info_id_seq' = res.seq
                      /\ now' = now + 1
                      /\ last_save' = [kod |-> kod, info |-> info.fields,
                                       text |-> text, ok |-> res.ok]
    /\ UNCHANGED <<fetchVars, leciva, dokumenty, dokumenty_id_seq,
                   driverVars, ei_schema, ei_fk, ex_pc, variant, medicines,
                   apiVars, indexVars>>

\* the loop is over (step3 then runs a test search, which writes nothing)
ExFinish ==
    /\ ex_pc = "loop"
    /\ ex_i >= Len(medicines)
    /\ ex_pc' = "done"
    /\ UNCHANGED <<fetchVars, storeVars, driverVars, enrichVars, variant,
                   medicines, ex_i, last_extract, last_save, apiVars,
                   indexVars>>

\* the leciva row the ingestion stage stores for code c
StoredProduct(c) ==
    [kod_sukl |-> c, nazev |-> <<"N", c>>, registracni_cislo |-> RegCZ,
     created_at |-> 0]

\* position of a code among the codes, used as row id
CodeNo(c) == CASE c = "A1" -> 1 [] c = "A2" -> 2 [] OTHER -> 3

\* the dokumenty row the ingestion stage stores for code c
StoredDocument(c) ==
    CHOOSE d \in UpsertDokumenty({}, DocumentParams(c, DocData(c),
                                                    BytesOfLen(50)),
                                 CodeNo(c), 0) : TRUE

\* the extracted_info row an earlier step3b run stored for code c
StoredInfo(c) ==
    [id |-> CodeNo(c), kod_sukl |-> c, indikace |-> <<"kasel">>,
     davkovani |-> <<>>, extracted_text |-> <<"S", "P", "C">>,
     created_at |-> 0]

\* The database an extraction run may find: products with or without a
\* stored SPC, facts of an earlier run.  A fact row needs the step3b table;
\* its product may be missing only once the foreign key is gone (dropped
\* by a later init_database of step2).
InitExtract ==
    /\ IdleFetch
    /\ \E P \in SUBSET ExtractCodes :
         /\ leciva = {StoredProduct(c) : c \in P}
         /\ \E D \in SUBSET P : dokumenty = {StoredDocument(c) : c \in D}
    /\ dokumenty_id_seq = 4
    /\ now = 1
    /\ ei_schema \in {"none", "step3", "step3b"}
    /\ ei_fk \in IF ei_schema = "none" THEN {FALSE} ELSE BOOLEAN
    /\ \E E \in SUBSET {"A1", "A3"} :
         /\ E # {} => ei_schema = "step3b"
         /\ ei_fk => E \subseteq Keys(leciva)
         /\ extracted_info = {StoredInfo(c) : c \in E}
    /\ extracted_info_id_seq = 4
    /\ ex_pc = "start"
    /\ variant \in {"step3", "step3b"}
    /\ medicines = <<>>
    /\ ex_i = 0
    /\ last_extract = NoExtract
    /\ last_save = NoSave
    /\ IdleApi
    /\ IdleIndex
    /\ pc = "idle"
    /\ SKIP_EU_REGISTRATIONS = TRUE
    /\ TARGET_MEDICINES = 10
    /\ MAX_ATTEMPTS = 5000
    /\ medicine_codes = <<>>
    /\ idx = 0
    /\ kod_sukl = ""
    /\ medicine_detail = EmptyDict
    /\ success_count = 0
    /\ document_count = 0
    /\ skipped_eu_count = 0
    /\ processed_count = 0
    /\ log = <<>>

NextExtract == ExInitTables \/ ExSelect \/ ExProcess \/ ExFinish

SpecExtract == InitExtract /\ [][NextExtract]_vars

(***************************************************************************)
(* Vector search: one call of                                              *)
(* VectorSearchManager.search_similar_medicines                            *)
(*                                                                         *)
(* An embedding is kept by its direction only: a unit vector at an angle   *)
(* in degrees, or the zero vector that create_embeddings returns when the  *)
(* model fails.  Distances and similarities are numbers in units of        *)
(* 10^-4, or NaN.                                                          *)
(***************************************************************************)
\* largest `limit` argument explored
MaxLimit == 3

Unit(a) == [zero |-> FALSE, angle |-> a]

\* np.zeros(384)
ZeroVector == [zero |-> TRUE, angle |-> 0]

Angles == {0, 1, 89, 90, 180}

\* what create_embeddings may return: model.encode's vector, or zeros
Vectors == {Unit(a) : a \in Angles} \cup {ZeroVector}

Num(v) == [nan |-> FALSE, v |-> v]

NaN == [nan |-> TRUE, v |-> 0]

\* cosine of an angle of 0..180 degrees, in units of 10^-4
Cos4(deg) ==
    CASE deg = 0   -> 10000
      [] deg = 1   -> 9998
      [] deg = 88  -> 349
      [] deg = 89  -> 175
      [] deg = 90  -> 0
      [] deg = 91  -> 0 - 175
      [] deg = 179 -> 0 - 9998
      [] OTHER     -> 0 - 10000

\* the pgvector operator <=>, cosine distance; with a zero vector the
\* division by the norms gives NaN
CosineDistance(a, b) ==
    IF a.zero \/ b.zero
    THEN NaN
    ELSE LET d == IF a.angle >= b.angle THEN a.angle - b.angle
                                        ELSE b.angle - a.angle
         IN  Num(10000 - Cos4(d))

\* 1 - x on float8
OneMinus(x) == IF x.nan THEN NaN ELSE Num(10000 - x.v)

\* the order of float8 in ORDER BY: NaN is equal to NaN and greater than
\* every number
Float8Leq(x, y) == y.nan \/ (~x.nan /\ x.v <= y.v)

\* round(float(x), 3): the result in units of 10^-3, ties to even
Round3(x) ==
    IF x.nan
    THEN NaN
    ELSE LET q == x.v \div 10
             r == x.v % 10
         IN  Num(IF r < 5 THEN q
                 ELSE IF r > 5 THEN q + 1
                 ELSE IF q % 2 = 0 THEN q ELSE q + 1)

\* FROM leciva l JOIN extracted_info ei ON ... JOIN medicine_vectors mv ON ...
\* with the select list of lines 143-144
JoinedRows(query_vector) ==
    {[kod_sukl   |-> l.kod_sukl,
      nazev      |-> l.nazev,
      indikace   |-> ei.indikace,
      davkovani  |-> ei.davkovani,
      distance   |-> CosineDistance(mv.combined_vector, query_vector),
      similarity |-> OneMinus(CosineDistance(mv.combined_vector,
                                             query_vector))] :
        <<l, ei, mv>> \in {x \in leciva \X extracted_info \X medicine_vectors :
                              /\ x[1].kod_sukl = x[2].kod_sukl
                              /\ x[1].kod_sukl = x[3].kod_sukl}}

\* The rows the plan may visit.  A sequential scan visits every joined
\* row; a scan of the ivfflat index (lines 62-67) visits the rows of the
\* probed lists only, and zero vectors are not in a cosine index.
ScannedRows(query_vector) ==
    {JoinedRows(query_vector)}
    \cup SUBSET {r \in JoinedRows(query_vector) : ~r.distance.nan}

OrderByNothing(S) == RowsInAnyOrder(S, Cardinality(S))

\* ORDER BY mv.combined_vector <=> %s: rows at the same distance come in
\* any order
OrderByDistance(S) ==
    {q \in RowsInAnyOrder(S, Cardinality(S)) :
        \A i, j \in DOMAIN q :
            i < j => Float8Leq(q[i].distance, q[j].distance)}

\* LIMIT %s
Limit(q, n) == SubSeq(q, 1, Min(n, Len(q)))

\* lines 156-164: the result dict of a fetched row
ResultOf(row) ==
    [kod_sukl   |-> row.kod_sukl,
     nazev      |-> row.nazev,
     indikace   |-> IF Truthy(row.indikace) THEN row.indikace ELSE <<>>,
     davkovani  |-> IF Truthy(row.davkovani) THEN row.davkovani ELSE <<>>,
     similarity |-> Round3(row.similarity)]

\* search_similar_medicines(query, limit), lines 131-169.  Any failure of
\* the connection or of the statement is caught and [] is returned.
SearchSimilarMedicines ==
    /\ pc = "search"
    /\ \E query_vector \in Vectors, limit \in 0..MaxLimit,
          connected \in BOOLEAN :
         IF connected
         THEN \E S \in ScannedRows(query_vector) :
                \E q \in OrderByDistance(S) :
                  search' = [called       |-> TRUE,
                             query_vector |-> query_vector,
                             limit        |-> limit,
                             raised       |-> FALSE,
                             rows         |-> Limit(q, limit),
                             results      |-> [i \in DOMAIN Limit(q, limit)
                                                 |-> ResultOf(Limit(q, limit)[i])]]
         ELSE search' = [called       |-> TRUE,
                         query_vector |-> query_vector,
                         limit        |-> limit,
                         raised       |-> TRUE,
                         rows         |-> <<>>,
                         results      |-> <<>>]
    /\ pc' = "searched"
    /\ UNCHANGED <<fetchVars, storeVars, configVars, medicine_codes, idx,
                   kod_sukl, medicine_detail, counterVars, log, enrichVars,
                   extractVars, apiVars, medicine_vectors, mv_fk, batchVars,
                   lexical>>

\* a medicine_vectors row of an earlier run, its three vectors alike (the
\* per-field vectors are not used by this search)
VectorRow(c, v) ==
    [kod_sukl |-> c, indikace_vector |-> v, davkovani_vector |-> v,
     combined_vector |-> v]

\* The database a search may find: the products of E have facts, and some
\* of these have a vector row.  Every product has its leciva row, or none
\* has: a later run of step2 has dropped leciva and dokumenty (lines
\* 144-145) and, with them, the foreign keys of the other two tables.
InitSearch ==
    /\ IdleFetch
    /\ \E P \in {ExtractCodes, {}} :
         /\ leciva = {StoredProduct(c) : c \in P}
         /\ dokumenty = {StoredDocument(c) : c \in P}
    /\ dokumenty_id_seq = 4
    /\ now = 1
    /\ ei_schema = "step3b"
    /\ ei_fk = (leciva # {})
    /\ mv_fk = (leciva # {})
    /\ \E E \in {{"A1", "A2"}, ExtractCodes} :
         /\ extracted_info = {StoredInfo(c) : c \in E}
         /\ \E I \in SUBSET E : \E f \in [I -> Vectors] :
              medicine_vectors = {VectorRow(c, f[c]) : c \in I}
    /\ extracted_info_id_seq = 4
    /\ IdleExtract
    /\ IdleApi
    /\ IdleQueries
    /\ pc = "search"
    /\ SKIP_EU_REGISTRATIONS = TRUE
    /\ TARGET_MEDICINES = 10
    /\ MAX_ATTEMPTS = 5000
    /\ medicine_codes = <<>>
    /\ idx = 0
    /\ kod_sukl = ""
    /\ medicine_detail = EmptyDict
    /\ success_count = 0
    /\ document_count = 0
    /\ skipped_eu_count = 0
    /\ processed_count = 0
    /\ log = <<>>

NextSearch == SearchSimilarMedicines

SpecSearch == InitSearch /\ [][NextSearch]_vars

(***************************************************************************)
(* Embedding Indexer: VectorSearchManager.update_vectors_for_medicine      *)
(*                                                                         *)
(* A text is the sequence of its words and blanks; a fragment of a fact    *)
(* field is one word, or the empty string "".                              *)
(***************************************************************************)
\* calls explored after the initial store
MaxIndexCalls == 2

\* " ".join(fragments)
RECURSIVE JoinBlank(_)
JoinBlank(fragments) ==
    IF fragments = <<>> THEN <<>>
    ELSE LET head == IF fragments[1] = "" THEN <<>> ELSE <<fragments[1]>>
         IN  IF Len(fragments) = 1 THEN head
             ELSE head \o <<" ">> \o JoinBlank(Tail(fragments))

\* str.strip()
RECURSIVE Strip(_)
Strip(text) ==
    IF text = <<>> THEN <<>>
    ELSE IF text[1] = " " THEN Strip(Tail(text))
    ELSE IF text[Len(text)] = " " THEN Strip(SubSeq(text, 1, Len(text) - 1))
    ELSE text

\* lines 91-92: " ".join(x) if x else ""
FieldText(fragments) == IF Truthy(fragments) THEN JoinBlank(fragments) ELSE <<>>

\* line 93: f"{indikace_text} {davkovani_text}".strip()
CombinedText(indikace, davkovani) ==
    Strip(FieldText(indikace) \o <<" ">> \o FieldText(davkovani))

\* model.encode(text): one fixed vector for each text
Encode(text) ==
    Unit(IF text = <<>> THEN 90 ELSE IF Len(text) = 1 THEN 0 ELSE 1)

\* create_embeddings, lines 77-85: the embedding, or zeros when the model
\* raises
CreateEmbeddings(text, encoded) == IF encoded THEN Encode(text) ELSE ZeroVector

\* which of the three create_embeddings calls finds the model failing
EncodeFailures == {"none", "indikace", "combined"}

\* lines 100-102 and 116-121: the VALUES tuple
VectorParams(kod, indikace, davkovani, failing) ==
    [kod_sukl         |-> kod,
     indikace_vector  |-> CreateEmbeddings(FieldText(indikace),
                                           failing # "indikace"),
     davkovani_vector |-> CreateEmbeddings(FieldText(davkovani), TRUE),
     combined_vector  |-> CreateEmbeddings(CombinedText(indikace, davkovani),
                                           failing # "combined")]

\* lines 108-115: INSERT INTO medicine_vectors ... ON CONFLICT (kod_sukl)
\* DO UPDATE SET the three vectors
UpsertMedicineVectors(rows, p) ==
    {r \in rows : r.kod_sukl # p.kod_sukl} \cup {p}

\* update_vectors_for_medicine, lines 87-129: the returned bool and the
\* table after the call.  `connected` is false when the connection or the
\* statement fails; the insert needs the leciva row while the foreign key
\* of line 52 exists.
UpdateVectorsForMedicine(kod, indikace, davkovani, failing, connected) ==
    IF ~Truthy(CombinedText(indikace, davkovani))
    THEN \* lines 95-97: return False
         [ret |-> FALSE, rows |-> medicine_vectors]
    ELSE IF connected /\ (mv_fk => kod \in Keys(leciva))
    THEN [ret  |-> TRUE,
          rows |-> UpsertMedicineVectors(
                       medicine_vectors,
                       VectorParams(kod, indikace, davkovani, failing))]
    ELSE \* lines 127-129: return False
         [ret |-> FALSE, rows |-> medicine_vectors]

IndexCodes == {"A1", "A2"}

IndexIndikace == {<<"">>, <<"bolest">>}

IndexDavkovani == {<<>>, <<"1x">>}

\* one call of update_vectors_for_medicine; the call record keeps the
\* arguments and what the model and the store did
ApiUpdateVectors ==
    /\ pc = "index"
    /\ now <= MaxIndexCalls
    /\ now' = now + 1
    /\ \E kod \in IndexCodes, indikace \in IndexIndikace,
          davkovani \in IndexDavkovani, failing \in EncodeFailures,
          connected \in BOOLEAN :
         LET res == UpdateVectorsForMedicine(kod, indikace, davkovani,
                                             failing, connected)
         IN  /\ medicine_vectors' = res.rows
             /\ UNCHANGED <<leciva, dokumenty, dokumenty_id_seq, enrichVars,
                            mv_fk, search, batchVars, lexical>>
             /\ Called("update_vectors_for_medicine",
                       <<kod, indikace, davkovani, failing, connected>>,
                       res.ret)
    /\ UNCHANGED <<fetchVars, driverVars, extractVars>>

\* The database an indexing call may find: A1 is stored with its document
\* and facts, A2 is stored or not, and A1 has a vector row or not.
InitIndex ==
    /\ IdleFetch
    /\ \E P \in {{"A1"}, {"A1", "A2"}} :
         /\ leciva = {StoredProduct(c) : c \in P}
         /\ dokumenty = {StoredDocument(c) : c \in P}
    /\ extracted_info = {StoredInfo("A1")}
    /\ medicine_vectors \in {{}, {VectorRow("A1", Unit(180))}}
    /\ mv_fk = TRUE
    /\ dokumenty_id_seq = 4
    /\ extracted_info_id_seq = 4
    /\ ei_schema = "step3b"
    /\ ei_fk = TRUE
    /\ now = 1
    /\ IdleExtract
    /\ IdleApi
    /\ IdleQueries
    /\ pc = "index"
    /\ SKIP_EU_REGISTRATIONS = TRUE
    /\ TARGET_MEDICINES = 10
    /\ MAX_ATTEMPTS = 5000
    /\ medicine_codes = <<>>
    /\ idx = 0
    /\ kod_sukl = ""
    /\ medicine_detail = EmptyDict
    /\ success_count = 0
    /\ document_count = 0
    /\ skipped_eu_count = 0
    /\ processed_count = 0
    /\ log = <<>>

NextIndex == ApiUpdateVectors

SpecIndex == InitIndex /\ [][NextIndex]_vars

(***************************************************************************)
(* Batch indexing: one call of VectorSearchManager.batch_update_vectors    *)
(***************************************************************************)
VectorBacklogUnfiltered ==
    {[kod_sukl |-> ei.kod_sukl, indikace |-> ei.indikace,
      davkovani |-> ei.davkovani] : ei \in extracted_info}

\* lines 220-225: SELECT ei.kod_sukl, ei.indikace, ei.davkovani FROM
\* extracted_info ei LEFT JOIN medicine_vectors mv ON ei.kod_sukl =
\* mv.kod_sukl WHERE mv.kod_sukl IS NULL
VectorBacklog ==
    {[kod_sukl |-> ei.kod_sukl, indikace |-> ei.indikace,
      davkovani |-> ei.davkovani] :
        ei \in {x \in extracted_info :
                   x.kod_sukl \notin Keys(medicine_vectors)}}

CountUpdatedAlways(count, ret) == count + 1

\* lines 231-232: if self.update_vectors_for_medicine(...): updated_count += 1
CountUpdated(count, ret) == IF ret THEN count + 1 ELSE count

\* lines 216-228: the query and fetchall(); a failure of the connection or
\* of the statement ends the call in the `except` of lines 241-243
BuSelect ==
    /\ bu_pc = "start"
    /\ \E ok \in BOOLEAN :
         IF ok
         THEN /\ bu_medicines' \in RowsInAnyOrder(VectorBacklog,
                                                  Cardinality(VectorBacklog))
              /\ bu_pc' = "loop"
              /\ UNCHANGED bu_ret
         ELSE /\ bu_pc' = "returned"
              /\ bu_ret' = 0
              /\ UNCHANGED bu_medicines
    /\ UNCHANGED <<bu_i, updated_count, bu_calls, medicine_vectors, mv_fk,
                   search, lexical>>
    /\ UNCHANGED <<fetchVars, storeVars, driverVars, enrichVars, extractVars,
                   apiVars>>

\* lines 230-236: one iteration of the loop
BuProcess ==
    /\ bu_pc = "loop"
    /\ bu_i < Len(bu_medicines)
    /\ bu_i' = bu_i + 1
    /\ \E failing \in EncodeFailures, connected \in BOOLEAN :
         LET row == bu_medicines[bu_i + 1]
             res == UpdateVectorsForMedicine(row.kod_sukl, row.indikace,
                                             row.davkovani, failing,
                                             connected)
         IN  /\ medicine_vectors' = res.rows
             /\ updated_count' = CountUpdated(updated_count, res.ret)
             /\ bu_calls' = Append(bu_calls, [kod |-> row.kod_sukl,
                                              ret |-> res.ret])
    /\ UNCHANGED <<bu_pc, bu_medicines, bu_ret, mv_fk, search, lexical>>
    /\ UNCHANGED <<fetchVars, storeVars, driverVars, enrichVars, extractVars,
                   apiVars>>

\* lines 238-239: return updated_count
BuReturn ==
    /\ bu_pc = "loop"
    /\ bu_i >= Len(bu_medicines)
    /\ bu_pc' = "returned"
    /\ bu_ret' = updated_count
    /\ UNCHANGED <<bu_medicines, bu_i, updated_count, bu_calls,
                   medicine_vectors, mv_fk, search, lexical>>
    /\ UNCHANGED <<fetchVars, storeVars, driverVars, enrichVars, extractVars,
                   apiVars>>

\* save_extracted_info called once before the batch starts
BuSaveExtractedInfo ==
    /\ bu_pc = "start"
    /\ api_last = NoCall
    /\ ApiSaveExtractedInfo

\* an extracted_info row whose fields hold no text
EmptyInfo(c) == [StoredInfo(c) EXCEPT !.indikace = <<>>]

\* The database the batch may find: facts for the codes of E, with or
\* without text, vectors (computed from older facts) for some of them.
\* Every product has its leciva row or none has (a later run of step2);
\* a foreign key that exists is satisfied by the rows of its table.
InitBatch ==
    /\ IdleFetch
    /\ \E P \in {IndexCodes, {}} :
         /\ leciva = {StoredProduct(c) : c \in P}
         /\ dokumenty = {StoredDocument(c) : c \in P}
    /\ \E E \in SUBSET IndexCodes : \E T \in SUBSET E : \E I \in SUBSET E :
         /\ extracted_info = {StoredInfo(c) : c \in T}
                             \cup {EmptyInfo(c) : c \in E \ T}
         /\ medicine_vectors = {VectorRow(c, Unit(180)) : c \in I}
    /\ ei_schema = "step3b"
    /\ ei_fk \in BOOLEAN
    /\ ei_fk => Keys(extracted_info) \subseteq Keys(leciva)
    /\ mv_fk \in BOOLEAN
    /\ mv_fk => Keys(medicine_vectors) \subseteq Keys(leciva)
    /\ dokumenty_id_seq = 4
    /\ extracted_info_id_seq = 4
    /\ now = 1
    /\ IdleExtract
    /\ IdleApi
    /\ search = NoSearch
    /\ lexical = NoLexical
    /\ bu_pc = "start"
    /\ bu_medicines = <<>>
    /\ bu_i = 0
    /\ updated_count = 0
    /\ bu_calls = <<>>
    /\ bu_ret = 0
    /\ pc = "api"
    /\ SKIP_EU_REGISTRATIONS = TRUE
    /\ TARGET_MEDICINES = 10
    /\ MAX_ATTEMPTS = 5000
    /\ medicine_codes = <<>>
    /\ idx = 0
    /\ kod_sukl = ""
    /\ medicine_detail = EmptyDict
    /\ success_count = 0
    /\ document_count = 0
    /\ skipped_eu_count = 0
    /\ processed_count = 0
    /\ log = <<>>

NextBatch == BuSaveExtractedInfo \/ BuSelect \/ BuProcess \/ BuReturn

SpecBatch == InitBatch /\ [][NextBatch]_vars

(***************************************************************************)
(* Lexical search: one call of MedicineSearcher.search_medicines           *)
(* (step4a_search.py) or of DatabaseManager.search_medicines               *)
(* (step3_pdf_extraction.py)                                               *)
(*                                                                         *)
(* Here a text is the sequence of its characters, and a TEXT[] value is    *)
(* the sequence of its elements.  Of the TEXT[] columns of step3's table   *)
(* the model keeps indikace.                                               *)
(***************************************************************************)
\* LIMIT 20
LexicalLimit == 20

\* lower case of a character
Lower(ch) == CASE ch = "A" -> "a" [] ch = "B" -> "b" [] OTHER -> ch

LowerText(t) == [i \in DOMAIN t |-> Lower(t[i])]

\* text LIKE pattern: % stands for any run of characters, _ for any one
RECURSIVE Like(_, _)
Like(t, p) ==
    IF p = <<>> THEN t = <<>>
    ELSE IF p[1] = "%"
    THEN Like(t, Tail(p)) \/ (t # <<>> /\ Like(Tail(t), p))
    ELSE IF t = <<>> THEN FALSE
    ELSE (p[1] = "_" \/ p[1] = t[1]) /\ Like(Tail(t), Tail(p))

\* text ILIKE pattern
ILike(t, p) == Like(LowerText(t), LowerText(p))

\* f'%{query}%'
Pattern(query) == <<"%">> \o query \o <<"%">>

\* an element that array_out writes between double quotes
NeedsQuotes(e) ==
    e = <<>> \/ \E i \in DOMAIN e : e[i] \in {",", "{", "}", " ", "\""}

RECURSIVE ArrayElements(_)
\* the elements of the array, each with a comma before it
ArrayElements(arr) ==
    IF arr = <<>> THEN <<>>
    ELSE <<",">>
         \o (IF NeedsQuotes(arr[1]) THEN <<"\"">> \o arr[1] \o <<"\"">>
                                    ELSE arr[1])
         \o ArrayElements(Tail(arr))

\* column::text of a TEXT[] column: {e1,e2,...}
ArrayText(arr) ==
    <<"{">> \o (IF arr = <<>> THEN <<>> ELSE Tail(ArrayElements(arr)))
            \o <<"}">>

\* the WHERE clause of script v (step4a lines 39-42, step3 lines 225-229)
LexicalWhere(v, l, ei, query) ==
    \/ ILike(ArrayText(ei.indikace), Pattern(query))
    \/ v = "step4a" /\ ILike(ArrayText(ei.davkovani), Pattern(query))
    \/ ILike(l.nazev, Pattern(query))

\* SELECT DISTINCT l.kod_sukl, l.nazev, ei.indikace, ei.davkovani FROM
\* leciva l JOIN extracted_info ei ON l.kod_sukl = ei.kod_sukl WHERE ...
LexicalRows(v, query) ==
    {[kod_sukl  |-> x[1].kod_sukl,
      nazev     |-> x[1].nazev,
      indikace  |-> x[2].indikace,
      davkovani |-> x[2].davkovani] :
        x \in {y \in leciva \X extracted_info :
                  /\ y[1].kod_sukl = y[2].kod_sukl
                  /\ LexicalWhere(v, y[1], y[2], query)}}

\* Whether the statement of script v can run on the table that script
\* `schema` created: step3's statement names the columns ucinky and
\* skupina, which only step3's table has.
LexicalStatementRuns(v, schema) == v = "step4a" \/ schema = "step3"

\* step4a lines 46-53: the result dict of a fetched row
LexicalResultOf(row) ==
    [kod_sukl  |-> row.kod_sukl,
     nazev     |-> row.nazev,
     indikace  |-> IF Truthy(row.indikace) THEN row.indikace ELSE <<>>,
     davkovani |-> IF Truthy(row.davkovani) THEN row.davkovani ELSE <<>>]

LexicalChars == {"a", "B", "%", ","}

\* the queries explored: up to two characters
LexicalQueries == SeqsOfLen(LexicalChars, 0, 2)

\* search_medicines(query) of script v.  Any failure of the connection or
\* of the statement is caught and [] is returned.
SearchMedicines ==
    /\ pc = "lexical"
    /\ \E v \in {"step4a", "step3"}, query \in LexicalQueries,
          connected \in BOOLEAN :
         IF connected /\ LexicalStatementRuns(v, ei_schema)
         THEN \E q \in RowsInAnyOrder(LexicalRows(v, query),
                                      Cardinality(LexicalRows(v, query))) :
                lexical' = [called  |-> TRUE,
                            script  |-> v,
                            query   |-> query,
                            raised  |-> FALSE,
                            results |-> [i \in DOMAIN Limit(q, LexicalLimit)
                                           |-> LexicalResultOf(q[i])]]
         ELSE lexical' = [called  |-> TRUE,
                          script  |-> v,
                          query   |-> query,
                          raised  |-> TRUE,
                          results |-> <<>>]
    /\ pc' = "searched"
    /\ UNCHANGED <<fetchVars, storeVars, configVars, medicine_codes, idx,
                   kod_sukl, medicine_detail, counterVars, log, enrichVars,
                   extractVars, apiVars, medicine_vectors, mv_fk, search,
                   batchVars>>

\* the leciva row of code c, its name spelled out
LexicalProduct(c) ==
    [kod_sukl |-> c,
     nazev |-> CASE c = "A1" -> <<"A", "b">>
                 [] c = "A2" -> <<"b">>
                 [] OTHER    -> <<"c">>,
     registracni_cislo |-> RegCZ,
     created_at |-> 0]

\* the extracted_info row of code c, its elements spelled out
LexicalInfo(c) ==
    [id |-> CodeNo(c), kod_sukl |-> c,
     indikace |-> CASE c = "A1" -> <<<<"c">>>>
                    [] c = "A2" -> <<<<"a">>, <<"c">>>>
                    [] OTHER    -> <<>>,
     davkovani |-> CASE c = "A3" -> <<<<"b">>>> [] OTHER -> <<>>,
     extracted_text |-> <<"S", "P", "C">>,
     created_at |-> 0]

\* The database a search may find: three products, facts for some of them
\* in the table of step3b, or the empty table of step3 (whose save cannot
\* write a row).
InitLexical ==
    /\ IdleFetch
    /\ leciva = {LexicalProduct(c) : c \in ExtractCodes}
    /\ dokumenty = {StoredDocument(c) : c \in ExtractCodes}
    /\ dokumenty_id_seq = 4
    /\ now = 1
    /\ ei_schema \in {"step3", "step3b"}
    /\ ei_fk = TRUE
    /\ \E E \in SUBSET ExtractCodes :
         /\ E # {} => ei_schema = "step3b"
         /\ extracted_info = {LexicalInfo(c) : c \in E}
    /\ extracted_info_id_seq = 4
    /\ IdleExtract
    /\ IdleApi
    /\ IdleIndex
    /\ pc = "lexical"
    /\ SKIP_EU_REGISTRATIONS = TRUE
    /\ TARGET_MEDICINES = 10
    /\ MAX_ATTEMPTS = 5000
    /\ medicine_codes = <<>>
    /\ idx = 0
    /\ kod_sukl = ""
    /\ medicine_detail = EmptyDict
    /\ success_count = 0
    /\ document_count = 0
    /\ skipped_eu_count = 0
    /\ processed_count = 0
    /\ log = <<>>

NextLexical == SearchMedicines

SpecLexical == InitLexical /\ [][NextLexical]_vars

(***************************************************************************)
(* SpecRerun: main() of step2_sukl_api.py started on a database that       *)
(* earlier runs of the three stages have filled                            *)
(***************************************************************************)
\* The database after earlier runs: products P, SPC documents for D,
\* facts (written by step3b) for E and vectors for the same codes.  A
\* fact row has a document behind it, as the backlog query of the
\* extraction stage selects only products with a document.
InitRerun ==
    /\ IdleFetch
    /\ \E P \in {{}, {"A1"}, {"A1", "A2"}} : \E D \in SUBSET P :
         \E E \in SUBSET D :
           /\ leciva = {StoredProduct(c) : c \in P}
           /\ dokumenty = {StoredDocument(c) : c \in D}
           /\ extracted_info = {StoredInfo(c) : c \in E}
           /\ medicine_vectors = {VectorRow(c, Unit(0)) : c \in E}
           /\ ei_schema \in IF E = {} THEN {"none", "step3", "step3b"}
                                     ELSE {"step3b"}
    /\ ei_fk = (ei_schema # "none")
    /\ mv_fk = (medicine_vectors # {})
    /\ dokumenty_id_seq = 4
    /\ extracted_info_id_seq = 4
    /\ now = 1
    /\ IdleExtract
    /\ IdleApi
    /\ IdleQueries
    /\ pc = "start"
    /\ SKIP_EU_REGISTRATIONS = TRUE
    /\ TARGET_MEDICINES = 10
    /\ MAX_ATTEMPTS = 5000
    /\ medicine_codes = <<>>
    /\ idx = 0
    /\ kod_sukl = ""
    /\ medicine_detail = EmptyDict
    /\ success_count = 0
    /\ document_count = 0
    /\ skipped_eu_count = 0
    /\ processed_count = 0
    /\ log = <<>>

SpecRerun == InitRerun /\ [][Next]_vars

(***************************************************************************)
(* SpecFetch: one call of download_document with arbitrary arguments       *)
(***************************************************************************)
InitFetch ==
    /\ dl_pc = "pre"
    /\ is_eu_registration \in BOOLEAN
    /\ max_retries \in 0..MaxRetriesBound
    /\ attempt = 0
    /\ responses = <<>>
    /\ sleeps = <<>>
    /\ pdf_content = <<>>
    /\ leciva = {}
    /\ dokumenty = {}
    /\ dokumenty_id_seq = 1
    /\ now = 1
    /\ NoEnrichment
    /\ IdleExtract
    /\ IdleApi
    /\ IdleIndex
    /\ pc = "fetch"
    /\ SKIP_EU_REGISTRATIONS = TRUE
    /\ TARGET_MEDICINES = 10
    /\ MAX_ATTEMPTS = 5000
    /\ medicine_codes = <<>>
    /\ idx = 0
    /\ kod_sukl = "A1"
    /\ medicine_detail = EmptyDict
    /\ success_count = 0
    /\ document_count = 0
    /\ skipped_eu_count = 0
    /\ processed_count = 0
    /\ log = <<>>

NextFetch == DlPreDelay \/ DlAttempt \/ DlLoopExit

SpecFetch == InitFetch /\ [][NextFetch]_vars

(***************************************************************************)
(* SpecTermination: a run of main, or one call of download_document with   *)
(* arbitrary arguments, in which every step that can be taken is taken.    *)
(* The scripts are single-threaded; every request has a timeout (30 s,     *)
(* lines 31 and 53; 60 s, line 95), every sleep is finite, and a call of    *)
(* the store returns or raises: a statement that has been reached is       *)
(* eventually over.                                                        *)
(***************************************************************************)
InitTermination == Init \/ InitFetch

NextTermination == Next \/ DlLoopExit

SpecTermination ==
    InitTermination /\ [][NextTermination]_vars /\ WF_vars(NextTermination)


(***************************************************************************)
(* Observations on the history of a run                                    *)
(***************************************************************************)
\* positions of the log holding an event of kind op
At(op) == {i \in 1..Len(log) : log[i].op = op}

\* the terminal states reached so far, in order
Terminals == SelectSeq(log, LAMBDA e : e.op = "terminal")

CountTerminal(state) ==
    Cardinality({i \in At("terminal") : log[i].res = state})

\* the operations of the catalog client, the fetcher and the store
CallOps == {"get_medicine_detail", "download_document", "save_medicine",
            "save_document"}

CallsIn(l) == SelectSeq(l, LAMBDA e : e.op \in CallOps)

DetailCalls == Cardinality(At("get_medicine_detail"))

(***************************************************************************)
(* C1  download_document answered 429 every time                           *)
(***************************************************************************)
All429 == \A i \in 1..Len(responses) : responses[i].status = 429

\* the sleeps after the first attempt (the EU pause has after = 0)
BackoffSleeps == SelectSeq(sleeps, LAMBDA s : s.after > 0)

\* C1: when every attempt of download_document is answered 429, the call
\* ends after exactly max_retries attempts, returns empty bytes, and has
\* slept 5 * 2^k s after attempt k (0-based) for every attempt but the
\* last: 5 s then 10 s for max_retries = 3.
C1_RetryBound429 ==
    (dl_pc \in {"returned", "raised"} /\ All429) =>
        /\ dl_pc = "returned"
        /\ pdf_content = <<>>
        /\ Len(responses) = max_retries
        /\ BackoffSleeps = [k \in 1..(max_retries - 1) |->
                               [after |-> k, ms |-> 5000 * 2^(k - 1)]]
        /\ max_retries = 3 =>
               [k \in 1..2 |-> BackoffSleeps[k].ms] = <<5000, 10000>>

C1_Witness ==
    /\ dl_pc = "returned"
    /\ max_retries = 3
    /\ Len(responses) = 3
    /\ All429
    /\ Len(BackoffSleeps) = 2

(***************************************************************************)
(* C2  EU registrations are skipped before the fetcher and the store       *)
(***************************************************************************)
\* the detail call at position i answered a registration number starting EU
EuDetailAt(i) ==
    /\ log[i].op = "get_medicine_detail"
    /\ log[i].res = "detail"
    /\ StartsWith(log[i].arg, <<"E", "U">>)

\* C2: under the skip policy, a code whose detail carries a registration
\* number starting "EU" goes straight to SkippedEU: the event after the
\* detail call is that terminal state, and a code that never answered
\* another registration number has no download_document, save_medicine or
\* save_document call at all.
C2_EuSkippedWithoutFetch ==
    SKIP_EU_REGISTRATIONS =>
        /\ \A i \in 1..Len(log) :
               EuDetailAt(i) =>
                   /\ i < Len(log)
                   /\ log[i + 1] = Terminal(log[i].kod, "SkippedEU")
        /\ \A c \in DriverCodes :
               (\A i \in At("get_medicine_detail") :
                    log[i].kod = c /\ log[i].res = "detail" => EuDetailAt(i))
               => \A i \in 1..Len(log) :
                      log[i].kod = c =>
                          log[i].op \notin {"download_document",
                                            "save_medicine", "save_document"}

C2_Witness ==
    /\ SKIP_EU_REGISTRATIONS
    /\ pc = "done"
    /\ \E i \in 1..Len(log) : EuDetailAt(i) /\ log[i].kod = "A1"
    /\ \E i \in 1..Len(log) : log[i] = Terminal("A2", "Stored")

(***************************************************************************)
(* C8  end-to-end ingestion of [A1 (EU), A2 (50-byte SPC)]                 *)
(***************************************************************************)
\* the scenario: the list is [A1, A2], A1 answers EU/1/23 and A2 a national
\* number, the document served for A2 has 50 bytes, the store accepts every
\* write, the policy skips EU, the target is 5 and the ceiling allows both
C8_Scenario ==
    /\ pc = "done"
    /\ medicine_codes = <<"A1", "A2">>
    /\ SKIP_EU_REGISTRATIONS
    /\ TARGET_MEDICINES = 5
    /\ MAX_ATTEMPTS >= 2
    /\ \E i \in At("get_medicine_detail") :
           log[i].kod = "A1" /\ log[i].res = "detail" /\ log[i].arg = RegEU
    /\ \E i \in At("get_medicine_detail") :
           log[i].kod = "A2" /\ log[i].res = "detail" /\ log[i].arg = RegCZ
    /\ pdf_content = BytesOfLen(50)
    /\ \A i \in 1..Len(log) : log[i].res # "False"

\* C8: the run of the scenario ends with A1 SkippedEU, A2 Stored and
\* nothing else, one Stored product counted, and exactly one row in
\* dokumenty (the 50-byte SPC of A2).
C8_EndToEndIngestion ==
    C8_Scenario =>
        /\ Terminals = <<Terminal("A1", "SkippedEU"), Terminal("A2", "Stored")>>
        /\ success_count = 1
        /\ skipped_eu_count = 1
        /\ Keys(leciva) = {"A2"}
        /\ Cardinality(dokumenty) = 1
        /\ \A d \in dokumenty :
               d.kod_sukl = "A2" /\ d.typ = "spc" /\ d.pdf_size = 50

C8_Witness ==
    /\ C8_Scenario
    /\ Cardinality(dokumenty) = 1
    /\ CountTerminal("Stored") = 1

(***************************************************************************)
(* C10  the two stop conditions                                            *)
(***************************************************************************)
\* the step calls the catalog client, the fetcher (an HTTP request counts)
\* or the store
MadeCall ==
    \/ Len(CallsIn(log')) > Len(CallsIn(log))
    \/ Len(responses') > Len(responses)

BoundReached ==
    \/ CountTerminal("Stored") >= TARGET_MEDICINES
    \/ DetailCalls >= MAX_ATTEMPTS

\* C10 as claimed: Stored products never exceed the target, attempted codes
\* never exceed the ceiling, and once either bound is reached no further
\* catalog, fetcher or store operation is called.
C10_NoCallOnceBoundReached ==
    /\ [](CountTerminal("Stored") <= TARGET_MEDICINES)
    /\ [](DetailCalls <= MAX_ATTEMPTS)
    /\ [][BoundReached => ~MadeCall]_vars

\* the code of the latest get_medicine_detail call
LastAttempted ==
    LET calls == SelectSeq(log, LAMBDA e : e.op = "get_medicine_detail")
    IN  calls[Len(calls)].kod

\* the calls a step adds to the log
NewCalls == SubSeq(CallsIn(log'), Len(CallsIn(log)) + 1, Len(CallsIn(log')))

\* C10 amended: the two counts are bounded; once the target is reached no
\* further operation is called; once the ceiling is reached no further code
\* is attempted, the calls still made being the download and the writes of
\* the code whose detail call reached the ceiling.
C10_BoundedRun ==
    /\ [](CountTerminal("Stored") <= TARGET_MEDICINES)
    /\ [](DetailCalls <= MAX_ATTEMPTS)
    /\ [][CountTerminal("Stored") >= TARGET_MEDICINES => ~MadeCall]_vars
    /\ [][DetailCalls >= MAX_ATTEMPTS =>
              \A i \in 1..Len(NewCalls) :
                  /\ NewCalls[i].op # "get_medicine_detail"
                  /\ NewCalls[i].kod = LastAttempted]_vars

\* a run stopped by the target with a code of the list left unattempted
C10_Witness ==
    /\ pc = "done"
    /\ CountTerminal("Stored") = TARGET_MEDICINES
    /\ DetailCalls < MAX_ATTEMPTS
    /\ processed_count > DetailCalls


(***************************************************************************)
(* C3  the upserts are idempotent                                          *)
(***************************************************************************)
\* the two latest calls of the store interface are the same call
SameCallTwice ==
    /\ api_prev.op # "none"
    /\ api_last.op = api_prev.op
    /\ api_last.args = api_prev.args

\* C3: when save_medicine, save_document or save_extracted_info is called
\* twice in a row with identical input and the first call succeeded, the
\* three tables hold after the second call the same rows with the same
\* values (ids and created_at included) as after the first.
C3_UpsertIdempotent ==
    (SameCallTwice /\ api_prev.ok) => api_last.tables = api_prev.tables

\* the second of two identical successful save_document calls, which took
\* the ON CONFLICT branch
C3_Witness ==
    /\ SameCallTwice
    /\ api_last.op = "save_document"
    /\ api_prev.ok
    /\ api_last.ok
    /\ dokumenty # {}

(***************************************************************************)
(* C4, C5  the backlog query of the extraction stage                       *)
(***************************************************************************)
\* codes of the rows of a query result
CodesOf(q) == {q[i].kod_sukl : i \in DOMAIN q}

\* codes with a stored 'spc' document and no extracted_info record
Unprocessed ==
    {c \in Keys(leciva) :
        /\ \E d \in dokumenty : d.kod_sukl = c /\ d.typ = "spc"
        /\ c \notin Keys(extracted_info)}

\* the query has just run and `medicines` holds its result
JustSelected == ex_pc = "loop" /\ ex_i = 0

\* C4: in every reachable state of the store, no result the backlog query
\* of either script can return contains a code that has a row in
\* extracted_info, and the result the driver has just fetched contains
\* none either.
C4_NeverReturnsProcessed ==
    /\ \A v \in {"step3", "step3b"} : \A q \in SelectUnprocessed(v) :
           CodesOf(q) \cap Keys(extracted_info) = {}
    /\ JustSelected => CodesOf(medicines) \cap Keys(extracted_info) = {}

\* the query has run on a store where one product with a document has a
\* record and another has none
C4_Witness ==
    /\ JustSelected
    /\ medicines # <<>>
    /\ \E c \in Keys(extracted_info) :
           \E d \in dokumenty : d.kod_sukl = c /\ d.typ = "spc"

\* C5: in every reachable state of the store, the result the driver has
\* just fetched from the backlog query holds every code that has a stored
\* 'spc' document and no extracted_info record, whatever their number.
C5_ReturnsWholeBacklog ==
    JustSelected => CodesOf(medicines) = Unprocessed

(***************************************************************************)
(* C6  a failing extraction yields empty facts                             *)
(***************************************************************************)
\* the service failed, gave no content, or gave content that is not JSON
ServiceFailed(svc) ==
    svc.result \in {"error", "none"} \/ (svc.result = "text" /\ ~svc.wellformed)

\* fields of the StructuredFacts schema kept by the model
SchemaFields == {"indikace", "davkovani"}

\* C6: when the service call fails, returns no content or returns content
\* that is not valid JSON, extract_medicine_info of either script returns
\* the empty dict (every field empty) and raises nothing; the driver goes
\* on to the next product and does not crash.
C6_FailedExtractionIsEmpty ==
    /\ \A v \in {"step3", "step3b"} : \A svc \in ServiceAnswers :
           ServiceFailed(svc) =>
               /\ ~ExtractMedicineInfo(v, svc).raised
               /\ ExtractMedicineInfo(v, svc).value = JsonObject(EmptyDict)
    /\ (last_extract.kod # "" /\ ServiceFailed(last_extract.svc)) =>
           /\ ~last_extract.raised
           /\ \A f \in SchemaFields :
                  Get(last_extract.value.fields, f, <<>>) = <<>>
           /\ ex_pc \in {"loop", "done"}

\* the driver has called extract_medicine_info and the service had
\* answered with text that is not JSON
C6_Witness ==
    /\ last_extract.kod # ""
    /\ last_extract.svc.result = "text"
    /\ ~last_extract.svc.wellformed
    /\ ex_i > 0

(***************************************************************************)
(* C9  stored facts are the fields of the response                         *)
(***************************************************************************)
\* the extracted_info row of code c
InfoRow(c) == CHOOSE r \in extracted_info : r.kod_sukl = c

\* the response of the scenario
C9_Response == [indikace |-> <<"bolest">>, davkovani |-> <<>>]

\* C9: after save_extracted_info of step3b succeeded for a code, the row
\* of that code holds for each schema field the value the response has for
\* it, and the empty sequence if the response lacks the field; a missing
\* field never makes the save fail.  In particular the response
\* {"indikace": ["bolest"], "davkovani": []} for A2 gives the row of A2
\* indikace = ["bolest"] and davkovani = [].
C9_FactsStoredAsGiven ==
    /\ last_save.ok =>
           /\ last_save.kod \in Keys(extracted_info)
           /\ InfoRow(last_save.kod).indikace
                  = Get(last_save.info, "indikace", <<>>)
           /\ InfoRow(last_save.kod).davkovani
                  = Get(last_save.info, "davkovani", <<>>)
    /\ (last_save.ok /\ last_save.kod = "A2" /\ last_save.info = C9_Response)
           => /\ InfoRow("A2").indikace = <<"bolest">>
              /\ InfoRow("A2").davkovani = <<>>
    /\ \A info \in {j.fields : j \in {x \in JsonValues : x.kind = "object"}} :
           \A c \in Keys(leciva) :
               SaveExtractedInfo("step3b", c, info, <<"S">>, TRUE).ok
                   = (ei_schema = "step3b")

\* the driver has stored the response of the scenario for A2
C9_Witness ==
    /\ last_save.ok
    /\ last_save.kod = "A2"
    /\ last_save.info = C9_Response
    /\ variant = "step3b"

\* a response without the field davkovani has been stored
C9_WitnessAbsentField ==
    /\ last_save.ok
    /\ "davkovani" \notin DOMAIN last_save.info

(***************************************************************************)
(* C7  ranking of the vector search                                        *)
(***************************************************************************)
\* x < y on floats: false when either is NaN
FloatLess(x, y) == ~x.nan /\ ~y.nan /\ x.v < y.v

\* no element of the sequence of floats is less than its successor, and
\* the numbers come before the NaNs
NonIncreasing(sims) ==
    \A i \in 1..(Len(sims) - 1) :
        /\ ~FloatLess(sims[i], sims[i + 1])
        /\ sims[i].nan => sims[i + 1].nan
        /\ (~sims[i].nan /\ ~sims[i + 1].nan) => sims[i].v >= sims[i + 1].v

\* C7: a call search_similar_medicines(query, limit) returns at most limit
\* results; the similarity 1 - distance of the fetched rows never increases
\* from a row to the next, and neither does the similarity rounded to 3
\* decimals of the returned results.
C7_RankedByDescendingSimilarity ==
    search.called =>
        /\ Len(search.results) <= search.limit
        /\ Len(search.results) = Len(search.rows)
        /\ NonIncreasing([i \in DOMAIN search.rows |->
                              search.rows[i].similarity])
        /\ NonIncreasing([i \in DOMAIN search.results |->
                              search.results[i].similarity])

\* a search returned three results: two whose similarities differ before
\* rounding and are equal after it, and a third that is lower
C7_Witness ==
    /\ search.called
    /\ Len(search.results) = 3
    /\ search.rows[1].similarity.v > search.rows[2].similarity.v
    /\ search.results[1].similarity = search.results[2].similarity
    /\ search.results[2].similarity.v > search.results[3].similarity.v
    /\ ~search.results[3].similarity.nan

(***************************************************************************)
(* C11, C12  failures of an attempt other than 429                         *)
(***************************************************************************)
\* a 4xx status other than 429
ClientError(r) == r.status >= 400 /\ r.status < 500 /\ r.status # 429

\* a failed attempt that is neither a 429 nor a 4xx: no HTTP response
\* (timeout, connection error) or a 5xx
TransientFailure(r) == r.status = 0 \/ (r.status >= 500 /\ r.status < 600)

\* C11: an attempt of download_document answered with a 4xx status other
\* than 429 is the last attempt of the call, and the call ends by raising
\* the error to its caller; it returns nothing, empty bytes included.
C11_ClientErrorPropagates ==
    \A i \in 1..Len(responses) :
        ClientError(responses[i]) =>
            /\ i = Len(responses)
            /\ dl_pc = "raised"
            /\ pdf_content = <<>>
            /\ \A s \in 1..Len(sleeps) : sleeps[s].after < i

\* a call that was retried once and then answered 404
C11_Witness ==
    /\ dl_pc = "raised"
    /\ Len(responses) = 2
    /\ responses[1].status = 429
    /\ responses[2].status = 404

\* C12: every attempt of download_document that fails with a timeout, a
\* connection error or a 5xx response is followed by a 2 s sleep and a
\* further attempt when attempts are left, and by the return of empty
\* bytes when it was the last of max_retries attempts; the call never
\* raises for it.
C12_TransientFailureRetried ==
    \A i \in 1..Len(responses) :
        TransientFailure(responses[i]) =>
            /\ dl_pc # "raised"
            /\ i < max_retries =>
                   \E s \in 1..Len(sleeps) :
                       sleeps[s] = [after |-> i, ms |-> 2000]
            /\ i = max_retries => dl_pc = "returned" /\ pdf_content = <<>>

(***************************************************************************)
(* C13  product rows are never removed                                     *)
(***************************************************************************)
\* C13: no step of an ingestion run, started on a database that earlier
\* runs have filled, removes the leciva row of a code: every code that has
\* a row before the step has one after it (also in a run whose catalog
\* list cannot be fetched).
C13_ProductRowsNeverRemoved ==
    [][Keys(leciva) \subseteq Keys(leciva')]_vars

(***************************************************************************)
(* C17  facts only for products with a stored document                     *)
(***************************************************************************)
\* C17: in every state reached by runs of the stages, each code with an
\* extracted_info row has a dokumenty row.
C17_FactsOnlyWithDocument ==
    \A e \in extracted_info :
        \E d \in dokumenty : d.kod_sukl = e.kod_sukl

(***************************************************************************)
(* C14  one product row per code, replaced in full                         *)
(***************************************************************************)
\* the leciva row of code c
LecivaRow(c) == CHOOSE r \in leciva : r.kod_sukl = c

\* the latest call of the store interface was a successful save_medicine
SavedMedicine == api_last.op = "save_medicine" /\ api_last.ok

\* C14: leciva never holds two rows with the same kod_sukl, and after a
\* successful save_medicine the row of the code holds for every attribute
\* the value of the new input, the empty default where the input lacks
\* the attribute, whatever the row held before.
C14_OneRowFullReplace ==
    /\ \A r1, r2 \in leciva : r1.kod_sukl = r2.kod_sukl => r1 = r2
    /\ SavedMedicine =>
           LET m == api_last.args[1]
           IN  /\ m.kodSUKL \in Keys(leciva)
               /\ LecivaRow(m.kodSUKL).nazev = Get(m, "nazev", <<>>)
               /\ LecivaRow(m.kodSUKL).registracni_cislo
                      = Get(m, "registracniCislo", <<>>)

\* a row stored with a registration number has been overwritten by an
\* input without one
C14_Witness ==
    /\ SavedMedicine
    /\ api_prev.op = "save_medicine"
    /\ api_prev.ok
    /\ api_prev.args[1].kodSUKL = api_last.args[1].kodSUKL
    /\ "registracniCislo" \in DOMAIN api_prev.args[1]
    /\ "registracniCislo" \notin DOMAIN api_last.args[1]
    /\ LecivaRow(api_last.args[1].kodSUKL).registracni_cislo = <<>>

(***************************************************************************)
(* C15  one fact record per code, for either script and either table       *)
(***************************************************************************)
\* C15: in every state of the store, for either script and whichever
\* script created extracted_info, save_extracted_info for a code that has
\* a leciva row succeeds (the connection working) and leaves exactly one
\* extracted_info row for the code, holding the new fields; and the table
\* never holds two rows for one code.
C15_FactsUpsertedForAnyVariant ==
    /\ \A r1, r2 \in extracted_info : r1.kod_sukl = r2.kod_sukl => r1 = r2
    /\ \A v \in {"step3", "step3b"}, c \in Keys(leciva), info \in ApiInfos :
           LET res == SaveExtractedInfo(v, c, info, <<"S">>, TRUE)
           IN  /\ res.ok
               /\ Cardinality({r \in res.rows : r.kod_sukl = c}) = 1
               /\ \A r \in res.rows :
                      r.kod_sukl = c =>
                          /\ r.indikace = Get(info, "indikace", <<>>)
                          /\ r.davkovani = Get(info, "davkovani", <<>>)

(***************************************************************************)
(* C16  a document needs its product                                       *)
(***************************************************************************)
\* C16: a save_document call for a code that has no leciva row returns
\* False and changes no row of any table.
C16_DocumentNeedsProduct ==
    [][(now' # now /\ api_last'.op = "save_document"
            /\ api_last'.args[1] \notin Keys(leciva))
         => (~api_last'.ok /\ Tables' = Tables)]_vars

\* the first call was a save_document for a code without a leciva row: the
\* statement ran (it took a value of the id sequence) and was refused
C16_Witness ==
    /\ api_prev.op = "none"
    /\ api_last.op = "save_document"
    /\ api_last.args[1] \notin Keys(leciva)
    /\ ~api_last.ok
    /\ dokumenty_id_seq = Cardinality(dokumenty) + 2

(***************************************************************************)
(* C18  a per-product error never ends the ingestion run                   *)
(***************************************************************************)
\* the terminal states a step adds to the log
NewTerminals ==
    SubSeq(Terminals', Len(Terminals) + 1, Len(Terminals'))

\* the run has ended normally
RunEnded == pc \in {"done", "no_codes"}

\* C18: whatever way the processing of a code ends (absent detail, an
\* error raised by download_document, empty bytes, save_medicine or
\* save_document returning False), the driver is back at the head of the
\* loop; at the head of the loop it takes the next code of the list unless
\* the list is exhausted or a stop condition holds; the run ends only with
\* the list exhausted or a stop condition true, and the only crash is the
\* failure of init_database, before any code.
C18_ErrorsIsolated ==
    /\ [][Len(NewTerminals) > 0 => pc' = "loop"]_vars
    /\ [][(pc = "loop" /\ idx < Len(medicine_codes)
              /\ ~StopCondition(success_count, processed_count + 1))
            => (pc' = "detail" /\ kod_sukl' = medicine_codes[idx + 1])]_vars
    /\ [](pc = "done" =>
             \/ (idx = Len(medicine_codes)
                    /\ Len(Terminals) = Len(medicine_codes))
             \/ StopCondition(success_count, processed_count))
    /\ [](pc = "crashed" => log = <<>>)

\* the outcome of code i of the list, once reached
OutcomeOf(i) == Terminals[i]

\* download_document raised for the first code of the list, and the
\* driver has asked for the detail of the second
C18_Witness ==
    /\ Len(medicine_codes) = 2
    /\ Len(Terminals) >= 1
    /\ OutcomeOf(1).res = "Failed"
    /\ \E i \in At("download_document") :
           /\ i < Len(log)
           /\ log[i].kod = medicine_codes[1]
           /\ log[i + 1] = Terminal(medicine_codes[1], "Failed")
    /\ \E j \in At("get_medicine_detail") :
           /\ \E t \in At("terminal") : t < j
           /\ log[j].kod = medicine_codes[2]

(***************************************************************************)
(* C19  a failing detail request and an empty detail                       *)
(***************************************************************************)
\* C19: in a run, a get_medicine_detail call whose request failed never
\* gives its caller the result 'absent' (the empty dict) that it gives for
\* a well-formed empty payload: the caller can tell the two apart.
C19_FailureDistinctFromAbsent ==
    \A i \in At("upstream_detail") :
        (log[i].res = "failure" /\ i < Len(log))
            => log[i + 1].res # "absent"

(***************************************************************************)
(* C20  indexing facts without text                                        *)
(***************************************************************************)
\* a recorded update_vectors_for_medicine call
IndexCall(c) == c.op = "update_vectors_for_medicine"

\* the combined text of the call's facts is empty
EmptyTextCall(c) == IndexCall(c) /\ ~Truthy(CombinedText(c.args[2], c.args[3]))

\* the call had text to embed and its store write failed
FailedWriteCall(c) ==
    /\ IndexCall(c)
    /\ Truthy(CombinedText(c.args[2], c.args[3]))
    /\ ~c.args[5]

\* C20: an update_vectors_for_medicine call whose facts have an empty
\* combined text leaves medicine_vectors as it was, and what it returns
\* differs from what a call returns whose store write failed.
C20_SkippedDistinctFromFailed ==
    /\ [][(now' # now /\ EmptyTextCall(api_last'))
            => medicine_vectors' = medicine_vectors]_vars
    /\ [](\A c, e \in {api_prev, api_last} :
              (EmptyTextCall(c) /\ FailedWriteCall(e)) => c.ok # e.ok)

(***************************************************************************)
(* C25  the document is saved after its product                            *)
(***************************************************************************)
\* C25: in an ingestion run every save_document call for a code comes
\* directly after a save_medicine call for the same code that returned
\* True, in the same iteration of the loop; none follows a save_medicine
\* that returned False and none comes without a save_medicine before it.
C25_DocumentAfterProduct ==
    \A i \in At("save_document") :
        /\ i > 1
        /\ log[i - 1] = Event("save_medicine", log[i].kod, <<>>, "True")

\* save_medicine failed for the first code and the document of the second
\* has been saved
C25_Witness ==
    /\ \E i \in At("save_medicine") :
           /\ log[i].res = "False"
           /\ \E j \in At("save_document") : i < j /\ log[j].kod # log[i].kod
    /\ pc = "done"

(***************************************************************************)
(* C26  one terminal state for each attempted code                         *)
(***************************************************************************)
TerminalStates == {"Stored", "SkippedEU", "SkippedEmpty", "Failed"}

\* the position after i of the next get_medicine_detail call, or the end
\* of the log
NextAttempt(i) ==
    IF \E j \in At("get_medicine_detail") : j > i
    THEN CHOOSE j \in At("get_medicine_detail") :
             j > i /\ \A k \in At("get_medicine_detail") : k > i => j <= k
    ELSE Len(log) + 1

\* the terminal states recorded for the attempt that starts at position i
TerminalsOf(i) == {t \in At("terminal") : i < t /\ t < NextAttempt(i)}

\* the attempt that starts at position i is over
AttemptOver(i) == NextAttempt(i) <= Len(log) \/ pc \in {"loop", "done"}

\* C26: every get_medicine_detail call of a run is followed, before the
\* next one and before the end of the run, by exactly one terminal state
\* of its code, one of Stored, SkippedEU, SkippedEmpty, Failed.  An absent
\* detail gives Failed; save_medicine or save_document returning False
\* gives Failed; Stored comes only after save_medicine and save_document
\* both returned True for the code, and success_count counts the Stored
\* codes; empty bytes returned by download_document give SkippedEmpty.
C26_OneTerminalPerCode ==
    /\ [](\A i \in At("get_medicine_detail") :
             /\ Cardinality(TerminalsOf(i)) <= 1
             /\ AttemptOver(i) => Cardinality(TerminalsOf(i)) = 1
             /\ \A t \in TerminalsOf(i) :
                    /\ log[t].kod = log[i].kod
                    /\ log[t].res \in TerminalStates
             /\ (log[i].res = "absent" /\ i < Len(log)) =>
                    log[i + 1] = Terminal(log[i].kod, "Failed"))
    /\ [](\A i \in At("save_medicine") \cup At("save_document") :
             (log[i].res = "False" /\ i < Len(log)) =>
                 log[i + 1] = Terminal(log[i].kod, "Failed"))
    /\ [](\A t \in At("terminal") :
             log[t].res = "Stored" =>
                 /\ t > 2
                 /\ log[t - 1] = Event("save_document", log[t].kod, <<>>,
                                       "True")
                 /\ log[t - 2] = Event("save_medicine", log[t].kod, <<>>,
                                       "True"))
    /\ [](success_count = CountTerminal("Stored"))
    /\ [](Len(Terminals) <= DetailCalls)
    /\ [][(pc = "download" /\ dl_pc = "returned" /\ pc' # "download") =>
              IF pdf_content = <<>>
              THEN NewTerminals = <<Terminal(kod_sukl, "SkippedEmpty")>>
              ELSE NewTerminals = <<>>]_vars

\* a finished run in which one code ended SkippedEmpty and the other Failed
\* on its save_document
C26_Witness ==
    /\ pc = "done"
    /\ Len(Terminals) = 2
    /\ Terminals[1].res = "SkippedEmpty"
    /\ Terminals[2].res = "Failed"
    /\ \E i \in At("save_document") : log[i].res = "False"

(***************************************************************************)
(* C27  the pause between two attempts                                     *)
(***************************************************************************)
\* C27: between every two consecutive get_medicine_detail calls of a run
\* the driver has slept: 0.5 s when the earlier code has a national
\* registration, 1 s when it has an EU registration, whatever terminal
\* state the earlier code reached.
C27_PauseBetweenAttempts ==
    \A i \in At("get_medicine_detail") :
        NextAttempt(i) <= Len(log) =>
            \E k \in At("sleep") :
                /\ i < k
                /\ k < NextAttempt(i)
                /\ log[k].arg = <<IF StartsWith(log[i].arg, <<"E", "U">>)
                                  THEN 1000 ELSE 500>>

(***************************************************************************)
(* C28  the extraction stage only processes the backlog                    *)
(***************************************************************************)
\* a step in which extract_medicine_info was called
ServiceCalled == last_extract' # last_extract

\* C28: no step of an extraction run (either script) removes or changes a
\* row extracted_info holds, so the rows present at the start of the run
\* are there unchanged at its end; extract_medicine_info is never called
\* for a code that has a row; and while no product with a document lacks a
\* row (the backlog is empty) the run calls the service for nothing and
\* writes nothing.
C28_OnlyBacklogProcessed ==
    /\ [][extracted_info \subseteq extracted_info']_vars
    /\ [][ServiceCalled =>
              last_extract'.kod \notin Keys(extracted_info)]_vars
    /\ [][Backlog = {} =>
              /\ ~ServiceCalled
              /\ extracted_info' = extracted_info
              /\ last_save' = last_save]_vars

\* a finished run of step3b that stored facts for A2 on a store that
\* already held the facts of A1
C28_Witness ==
    /\ ex_pc = "done"
    /\ variant = "step3b"
    /\ StoredInfo("A1") \in extracted_info
    /\ last_save.ok
    /\ last_save.kod = "A2"
    /\ "A2" \in Keys(extracted_info)
    /\ Backlog = {}

(***************************************************************************)
(* C29  referential integrity across runs of the stages                    *)
(***************************************************************************)
\* C29: in every state reached by runs of the stages, each row of
\* dokumenty, of extracted_info and of medicine_vectors carries a kod_sukl
\* that has a leciva row.
C29_EveryRowHasItsProduct ==
    /\ Keys(dokumenty) \subseteq Keys(leciva)
    /\ Keys(extracted_info) \subseteq Keys(leciva)
    /\ Keys(medicine_vectors) \subseteq Keys(leciva)

(***************************************************************************)
(* C22  a failing embedding                                                *)
(***************************************************************************)
\* the call had text to embed and the model failed on one of the texts
FailedEmbeddingCall(c) ==
    /\ IndexCall(c)
    /\ Truthy(CombinedText(c.args[2], c.args[3]))
    /\ c.args[4] # "none"

\* C22: an update_vectors_for_medicine call during which the embedding
\* model fails writes no medicine_vectors row and changes none.
C22_FailedEmbeddingWritesNothing ==
    [][(now' # now /\ FailedEmbeddingCall(api_last'))
          => medicine_vectors' = medicine_vectors]_vars

(***************************************************************************)
(* C24  the number of results of the vector search                         *)
(***************************************************************************)
\* number of product codes that have a medicine_vectors row
IndexedCodes == Cardinality(Keys(medicine_vectors))

\* C24: in every state of the store, a call search_similar_medicines(query,
\* limit) whose statement ran returns exactly min(limit, N) results, N being
\* the number of codes with a medicine_vectors row.
C24_ReturnsMinLimitIndexed ==
    (search.called /\ ~search.raised) =>
        Len(search.results) = Min(search.limit, IndexedCodes)

(***************************************************************************)
(* C21  the batch indexes every fact record without a vector record        *)
(***************************************************************************)
\* codes with an extracted_info row and no medicine_vectors row
Unindexed == Keys(extracted_info) \ Keys(medicine_vectors)

\* number of the calls made so far that returned True
SucceededCalls == Cardinality({k \in 1..Len(bu_calls) : bu_calls[k].ret})

ChangedVectors ==
    Keys((medicine_vectors \ medicine_vectors')
             \cup (medicine_vectors' \ medicine_vectors))

ContainsCI(text, query) ==
    \E i \in 0..(Len(text) - Len(query)) :
        LowerText(SubSeq(text, i + 1, i + Len(query))) = LowerText(query)

\* the texts of the fact fields of code c: the elements of its arrays
FactTexts(c) ==
    UNION {{r.indikace[i] : i \in DOMAIN r.indikace}
               \cup {r.davkovani[i] : i \in DOMAIN r.davkovani} :
           r \in {x \in extracted_info : x.kod_sukl = c}}

\* codes of the products that hold the query in their name or in one of
\* their fact texts
Matching(query) ==
    {l.kod_sukl : l \in {x \in leciva :
        \/ ContainsCI(x.nazev, query)
        \/ \E t \in FactTexts(x.kod_sukl) : ContainsCI(t, query)}}

\* C23: a search_medicines(query) call whose statement ran returns at most
\* 20 products; every product it returns holds the query as a
\* case-insensitive substring of its name or of one of its fact texts; and
\* when at most 20 products of the store hold it, all of them are returned.
C23_LexicalSearchMatches ==
    (lexical.called /\ ~lexical.raised) =>
        /\ Len(lexical.results) <= LexicalLimit
        /\ CodesOf(lexical.results) \subseteq Matching(lexical.query)
        /\ Cardinality(Matching(lexical.query)) <= LexicalLimit =>
               CodesOf(lexical.results) = Matching(lexical.query)

(***************************************************************************)
(* C31  the pause of download_document for EU registrations                *)
(***************************************************************************)
\* the sleeps of 3 s made by the call
EuPauses == {i \in DOMAIN sleeps : sleeps[i].ms = 3000}

\* C31: a call of download_document with is_eu_registration set sleeps 3 s
\* exactly once, before its first request, and never again before a retry;
\* a call without the flag makes no request-free sleep and no sleep of 3 s.
\* Nothing is slept or requested before the flag has been tested.
C31_EuPauseOnce ==
    /\ dl_pc = "pre" => sleeps = <<>> /\ responses = <<>>
    /\ dl_pc # "pre" =>
          /\ EuPauses = IF is_eu_registration THEN {1} ELSE {}
          /\ \A i \in DOMAIN sleeps :
                 (sleeps[i].after = 0) <=> (i \in EuPauses)
          /\ responses # <<>> /\ is_eu_registration =>
                 sleeps[1] = [after |-> 0, ms |-> 3000]

\* an EU call that was retried twice: the pause and two retry sleeps
C31_Witness ==
    /\ dl_pc = "returned"
    /\ is_eu_registration
    /\ Len(responses) = 3
    /\ Len(sleeps) = 3
    /\ EuPauses = {1}

(***************************************************************************)
(* C37  the processed count reported at the end of main                    *)
(***************************************************************************)
\* C37: when main ends, processed_count (logged at line 405) equals the
\* number of codes for which get_medicine_detail was called, however the
\* loop ended.
C37_ProcessedCountsAttempts ==
    pc = "done" => processed_count = DetailCalls

(***************************************************************************)
(* C36  document rows and the Stored count                                 *)
(***************************************************************************)
\* C36: at the end of a run of main the number of dokumenty rows equals
\* success_count, for every list of codes.  (init_database empties both
\* tables at the start of every run, so the rows at the end are the run's
\* own whether or not the store was empty before.)
C36_DocumentRowsEqualStored ==
    pc = "done" => Cardinality(dokumenty) = success_count

(***************************************************************************)
(* C35  codes that end without a document leave the store as it was        *)
(***************************************************************************)
\* a step that changes a row of leciva or dokumenty
StoreWritten == leciva' # leciva \/ dokumenty' # dokumenty

\* the get_medicine_detail call of the attempt that ended in terminal t
AttemptOf(t) ==
    CHOOSE i \in At("get_medicine_detail") :
        /\ i < t
        /\ \A j \in At("get_medicine_detail") : j < t => j <= i

\* terminal t is Failed for an absent detail, SkippedEU or SkippedEmpty
EndedWithoutDocument(t) ==
    \/ log[t].res \in {"SkippedEU", "SkippedEmpty"}
    \/ log[t].res = "Failed" /\ log[t - 1].op = "get_medicine_detail"

SaveOps == {"save_medicine", "save_document"}

\* C35: an attempt of main that ends Failed on an absent detail, SkippedEU
\* or SkippedEmpty makes no call of save_medicine or save_document; after
\* init_database the tables change only in those two calls, and
\* save_medicine is reached only directly after download_document returned
\* non-empty bytes for the same code (never after it returned b"" or
\* raised).
C35_NoDocumentNoWrite ==
    /\ [](\A t \in At("terminal") :
            EndedWithoutDocument(t) =>
                \A k \in (AttemptOf(t) + 1)..(t - 1) :
                    log[k].op \notin SaveOps)
    /\ [](pc = "save_medicine" =>
            /\ Truthy(pdf_content)
            /\ dl_pc = "idle"
            /\ log[Len(log)] =
                   Event("download_document", kod_sukl, <<>>, "called"))
    /\ [][StoreWritten =>
            \/ pc = "start"
            \/ pc \in {"save_medicine", "save_document"}
                  /\ Truthy(pdf_content)]_vars

\* a code was Stored, the next one ended SkippedEmpty, and the store holds
\* the one product and the one document of the first
C35_Witness ==
    /\ Len(Terminals) = 2
    /\ Terminals[1].res = "Stored"
    /\ Terminals[2].res = "SkippedEmpty"
    /\ Terminals[1].kod # Terminals[2].kod
    /\ Keys(leciva) = {Terminals[1].kod}
    /\ Keys(dokumenty) = {Terminals[1].kod}

(***************************************************************************)
(* C33  the outcome of a run whose catalog list could not be fetched       *)
(***************************************************************************)
\* the list request of this run failed
ListFailed == \E i \in At("upstream_list") : log[i].res = "failure"

\* some code of this run ended Failed
ItemFailed == \E t \in At("terminal") : log[t].res = "Failed"

\* C33: a run of main whose list request failed ends with a non-zero exit
\* status, and a run whose list was fetched ends with exit status 0
\* whatever happened to its codes.
C33_ListFailureExitsNonZero ==
    /\ RunEnded /\ ListFailed => ExitStatus # 0
    /\ pc = "done" /\ ItemFailed => ExitStatus = 0

(***************************************************************************)
(* C34  the stored source text is the first 1000 characters                *)
(***************************************************************************)
\* the source text given to the latest save_extracted_info call
GivenText == api_last.args[4]

\* C34: after save_extracted_info succeeded, the extracted_text of the
\* row of its code has min(len(text), 1000) characters and equals the
\* given text character by character; no row of extracted_info, whenever
\* written, has an extracted_text of more than 1000 characters.
C34_SourceTextPrefix ==
    /\ (api_last.op = "save_extracted_info" /\ api_last.ok) =>
           LET stored == InfoRow(api_last.args[2]).extracted_text IN
           /\ Len(stored) = Min(Len(GivenText), 1000)
           /\ \A i \in 1..Len(stored) : stored[i] = GivenText[i]
    /\ \A r \in extracted_info : Len(r.extracted_text) <= 1000

\* a text of 1001 characters was saved and the row holds 1000 of them
C34_Witness ==
    /\ api_last.op = "save_extracted_info"
    /\ api_last.ok
    /\ Len(GivenText) = 1001
    /\ Len(InfoRow(api_last.args[2]).extracted_text) = 1000

(***************************************************************************)
(* C38  products whose extraction gave nothing stay in the backlog         *)
(***************************************************************************)
\* the codes this run has been through
Processed == CodesOf(SubSeq(medicines, 1, ex_i))

\* the codes that got their row in this step
NewlyRecorded == Keys(extracted_info') \ Keys(extracted_info)

\* the scripts a later run may be
Variants == {"step3", "step3b"}

\* C38: an iteration that does not reach save_extracted_info (empty text,
\* failed or empty extraction) writes no extracted_info row; a code the run
\* has been through without getting a row is in the result of the backlog
\* query of every later run, of either script; and a code gets its row only
\* in an iteration whose extraction returned a non-empty object.
C38_EmptyResultStaysInBacklog ==
    /\ [][(ex_i' = ex_i + 1 /\ last_save' = last_save) =>
             extracted_info' = extracted_info]_vars
    /\ [](\A c \in Processed :
             c \notin Keys(extracted_info) =>
                 \A v \in Variants :
                     \A q \in SelectUnprocessed(v) : c \in CodesOf(q))
    /\ [][\A c \in NewlyRecorded :
             /\ ex_i' = ex_i + 1
             /\ last_extract'.kod = c
             /\ ~last_extract'.raised
             /\ last_extract'.value.kind = "object"
             /\ JsonTruthy(last_extract'.value)
             /\ last_save'.ok]_vars

(***************************************************************************)
(* C32  a run and every download terminate, within their bounds            *)
(***************************************************************************)
\* main is over: it returned, or init_database raised
MainOver == pc \in {"done", "no_codes", "crashed"}

\* download_document is over: it returned or raised
DownloadOver == dl_pc \in {"returned", "raised"}

\* C32: whatever the upstream and the store answer, a run of main ends,
\* having called get_medicine_detail for at most min(len(medicine_codes),
\* MAX_ATTEMPTS) codes, and every call of download_document ends, having
\* made at most max_retries requests.
C32_Terminates ==
    /\ (pc = "start") ~> MainOver
    /\ (dl_pc = "pre") ~> DownloadOver
    /\ [](DetailCalls <= Min(Len(medicine_codes), MAX_ATTEMPTS))
    /\ [](Len(responses) <= max_retries)
    /\ [](DownloadOver /\ max_retries > 0 => Len(responses) >= 1)

\* a run that went through a list of two codes has ended; the download of
\* the second gave up after its retries
C32_Witness ==
    /\ pc = "done"
    /\ Len(medicine_codes) = 2
    /\ DetailCalls = 2
    /\ Len(Terminals) = 2
    /\ Terminals[2].res = "SkippedEmpty"

=============================================================================
